---- MODULE Spec2Model ----
(***************************************************************************)
(* Vehicle-tracker backend: the ingestion pass of                          *)
(* vehicles_to_supabase_sync.run_sync_once (fetch, normalize, dedupe,      *)
(* freshness filter, per-record upsert into the store) together with the   *)
(* pure functions it is built from (samsara_normalizer, cat_client,        *)
(* is_position_fresh) and the store operations of supabase_db.             *)
(*                                                                         *)
(* Conventions of the encoding                                             *)
(*   - a Python str that may be None is a string, None being NoneS;        *)
(*   - a Python number that may be None is <<>> (None) or <<x>>;           *)
(*   - coordinates are integers in micro-degrees (1e-6 degree);            *)
(*   - instants are integers in ticks, TicksPerHour ticks to the hour;     *)
(*   - speeds are fixed-point integers, E5 units to 1 km/h.                *)
(***************************************************************************)
EXTENDS Integers, Sequences, FiniteSets, TLC

\* ------------------------------------------------------------------ bounds
MaxBatch == 2          \* raw records obtained in one pass, all providers together
MaxLen == 3            \* length of the lists handed to dedupe on its own
MaxTicks == 1          \* clock ticks that may elapse during a pass
TicksPerHour == 2      \* resolution of the clock
Now0 == 1000           \* clock reading when the pass starts
MaxSites == 2          \* length of the job lists handed to the matcher

\* ------------------------------------------------------- program constants
POSITION_FRESHNESS_HOURS == 336
UNKNOWN_RANK == 99
MPH_TO_KPH_E5 == 160934     \* 1.60934 in fixed point
E5 == 10^5

NoneS == "<None>"
NoneN == <<>>
Some(x) == <<x>>

TruthyS(s) == s # NoneS /\ s # ""
\* Python's `a or b`: a when a is truthy, else b (also when b is falsy).
OrS(a, b) == IF TruthyS(a) THEN a ELSE b

\* -------------------------------------------------------------- timestamps
\* A timestamp value as the records carry it.
\*   kind "none"      None
\*        "iso"       ISO-8601 string with an explicit offset (Z is off = 0)
\*        "iso_naive" ISO-8601 string without offset
\*        "dt"        timezone-aware datetime object
\*        "dt_naive"  datetime object without tzinfo
\*        "epoch"     number: the count of milliseconds from the Unix epoch
\*                    to t (the timeMs the v1 endpoint reports)
\*        "text"      a date string in a form dateutil reads and
\*                    datetime.fromisoformat does not ("Fri, 30 Oct 2026
\*                    12:00:00 GMT", "10/30/2026 12:00"); off is 0
\*        "digits"    a string of four decimal digits that spell a number
\*                    above 31 ("2026"): dateutil reads a year, float()
\*                    reads a number, datetime.fromisoformat raises; t is
\*                    the number spelled and off is 0
\*        "garbage"   a non-empty string no parser accepts
\*   t    the wall-clock reading written in the value, in ticks
\*   off  the UTC offset written in the value, in hours
TS(kind, t, off) == [kind |-> kind, t |-> t, off |-> off]
TsNone == TS("none", 0, 0)
StringKinds == {"iso", "iso_naive", "text", "digits", "garbage"}

\* The calendar of the clock: the pass starts at 2026-10-31T12:00Z, 498180
\* hours after the Unix epoch; EpochTick is the reading of 1970-01-01T00:00Z.
EpochTick == Now0 - 498180 * TicksPerHour

\* `a or b` on timestamp values: None and the number 0 are falsy.
TruthyTs(ts) == ts.kind # "none" /\ ~(ts.kind = "epoch" /\ ts.t = EpochTick)
OrTs(a, b) == IF TruthyTs(a) THEN a ELSE b

\* The UTC instant a parseable timestamp denotes.
Instant(ts) ==
    IF ts.kind \in {"iso", "dt"} THEN ts.t - ts.off * TicksPerHour ELSE ts.t

\* The calendar year of the pass, and 00:00 of the day of clock reading t
\* (the pass starts at 12:00 of its day).
YearOfPass == 2026
Midnight(t) == t - ((t - Now0 + 12 * TicksPerHour) % (24 * TicksPerHour))
LeapYear(y) == y % 4 = 0 /\ (y % 100 # 0 \/ y % 400 = 0)
\* The days from 31 October of year y to 31 October of the year of the pass
\* (negative for a later year).
DaysSince(y) ==
    IF y <= YearOfPass
    THEN 365 * (YearOfPass - y) + Cardinality({k \in (y + 1)..YearOfPass : LeapYear(k)})
    ELSE 0 - (365 * (y - YearOfPass) + Cardinality({k \in (YearOfPass + 1)..y : LeapYear(k)}))

\* dateutil's convertyear: a number below 100 is a year without century
\* and is moved into the hundred years around today.
ConvertYear(y) ==
    IF y >= 100 THEN y
    ELSE LET year == y + (YearOfPass \div 100) * 100
         IN  IF year >= YearOfPass + 50 THEN year - 100
             ELSE IF year < YearOfPass - 50 THEN year + 100
             ELSE year

\* dateutil's parser on four digits: the year they spell ("0032" is 2032,
\* "0099" is 1999), the month and the day taken from today (its default is
\* datetime.now() cut to 00:00, the host clock being UTC), no tzinfo.
DateutilYear(y, now) ==
    Midnight(now) - DaysSince(ConvertYear(y)) * 24 * TicksPerHour

\* What dt_parser.parse returns for a string it accepts, as a UTC instant.
ParserReads(ts, now) ==
    IF ts.kind = "digits" THEN DateutilYear(ts.t, now) ELSE Instant(ts)

\* ------------------------------------------------------- freshness filter
\* dateutil's parser accepts the string (the ISO-8601 forms and the other
\* date forms it knows), or raises.
ParserAccepts(ts) == ts.kind \in {"iso", "iso_naive", "text", "digits"}

\* is_position_fresh with `return True` in its except clause: what cannot be
\* read is let through.
IsPositionFreshFailOpen(timestamp_utc, max_age_hours, now) ==
    IF timestamp_utc.kind = "none" THEN FALSE
    ELSE IF timestamp_utc.kind \in StringKinds /\ ~ParserAccepts(timestamp_utc) THEN TRUE
    ELSE IF timestamp_utc.kind = "epoch" THEN TRUE
    ELSE ParserReads(timestamp_utc, now) >= now - max_age_hours * TicksPerHour

\* is_position_fresh without `return ts >= cutoff`: every timestamp that
\* can be read is fresh, whatever its age.
IsPositionFreshAnyAge(timestamp_utc, max_age_hours, now) ==
    IF timestamp_utc.kind = "none" THEN FALSE
    ELSE IF timestamp_utc.kind \in StringKinds /\ ~ParserAccepts(timestamp_utc) THEN FALSE
    ELSE IF timestamp_utc.kind = "epoch" THEN FALSE
    ELSE TRUE

\* is_position_fresh(timestamp_utc, max_age_hours), read at clock `now`.
\*   None                         -> False
\*   str the parser rejects       -> the exception is caught -> False
\*   number                       -> ts.tzinfo raises AttributeError -> False
\*   naive str / datetime         -> taken as UTC
\*   str of four digits           -> today's date in the year they spell
is_position_fresh(timestamp_utc, max_age_hours, now) ==
    IF timestamp_utc.kind = "none" THEN FALSE
    ELSE IF timestamp_utc.kind \in StringKinds /\ ~ParserAccepts(timestamp_utc) THEN FALSE
    ELSE IF timestamp_utc.kind = "epoch" THEN FALSE
    ELSE ParserReads(timestamp_utc, now) >= now - max_age_hours * TicksPerHour

\* ------------------------------------------------------------ deduplicator
_category_rank(cat) ==
    CASE cat = "vehicles_v2" -> 0
      [] cat = "equipment_v2" -> 1
      [] cat = "assets_v1" -> 2
      [] OTHER -> UNKNOWN_RANK

\* round(float(x), 5) of a coordinate given in micro-degrees, as a count of
\* 1e-5 degrees (inputs whose sixth decimal is 5 are not used: the result
\* would depend on the binary representation of the float).
Round5(m) == (m + 5) \div 10

\* The text the f-string writes for round(float(x), 5): its sign and its
\* digits, as a count of 1e-5 degrees. round() keeps the sign of a negative
\* x that rounds to zero: -0.000001 is written "-0.0", 0.000001 is "0.0".
Str5(m) == [minus |-> m < 0, n |-> IF Round5(m) < 0 THEN 0 - Round5(m) ELSE Round5(m)]
\* The place of a number in a key that holds none.
NoStr5 == [minus |-> FALSE, n |-> 0]

\* The key dedupe_normalized_locations files a record under.
DedupKey(rec) ==
    LET name == OrS(rec.name, "")
    IN  IF TruthyS(rec.external_id)
        THEN [tag |-> "id", s |-> rec.external_id, a |-> NoStr5, b |-> NoStr5]
        ELSE IF rec.latitude = NoneN \/ rec.longitude = NoneN
        THEN [tag |-> "name-only", s |-> name, a |-> NoStr5, b |-> NoStr5]
        ELSE [tag |-> "name_lat_lon", s |-> name,
              a |-> Str5(rec.latitude[1]), b |-> Str5(rec.longitude[1])]

\* by_key is the dict of the loop: a sequence of [key, rec] entries in
\* insertion order (assigning to a key already present keeps its place).
KeyIndex(by_key, key) ==
    IF \E i \in 1..Len(by_key) : by_key[i].key = key
    THEN CHOOSE i \in 1..Len(by_key) : by_key[i].key = key
    ELSE 0

\* The loop body with `<=` for `<`: of equal ranks the last one is kept.
DedupeVisitLastWins(by_key, rec) ==
    LET key == DedupKey(rec)
        i   == KeyIndex(by_key, key)
    IN  IF i = 0
        THEN Append(by_key, [key |-> key, rec |-> rec])
        ELSE IF _category_rank(rec.source_category)
                    <= _category_rank(by_key[i].rec.source_category)
        THEN [by_key EXCEPT ![i].rec = rec]
        ELSE by_key

\* The loop body deleting the key before it stores the better record: the
\* key moves to the end of the dict.
DedupeVisitReinsert(by_key, rec) ==
    LET key == DedupKey(rec)
        i   == KeyIndex(by_key, key)
    IN  IF i = 0
        THEN Append(by_key, [key |-> key, rec |-> rec])
        ELSE IF _category_rank(rec.source_category)
                    < _category_rank(by_key[i].rec.source_category)
        THEN Append(SelectSeq(by_key, LAMBDA e : e.key # key), [key |-> key, rec |-> rec])
        ELSE by_key

\* One iteration of the loop body.
DedupeVisit(by_key, rec) ==
    LET key == DedupKey(rec)
        i   == KeyIndex(by_key, key)
    IN  IF i = 0
        THEN Append(by_key, [key |-> key, rec |-> rec])
        ELSE IF _category_rank(rec.source_category)
                    < _category_rank(by_key[i].rec.source_category)
        THEN [by_key EXCEPT ![i].rec = rec]
        ELSE by_key

RECURSIVE DedupeLoop(_, _)
DedupeLoop(records, by_key) ==
    IF records = <<>> THEN by_key
    ELSE DedupeLoop(Tail(records), DedupeVisit(by_key, Head(records)))

\* The deduplicator returning its records sorted by category rank.
DedupeSortedByRank(records) ==
    LET by_key == DedupeLoop(records, <<>>)
        recs   == [i \in 1..Len(by_key) |-> by_key[i].rec]
        Of(n)  == SelectSeq(recs, LAMBDA r : _category_rank(r.source_category) = n)
    IN  Of(0) \o Of(1) \o Of(2) \o Of(UNKNOWN_RANK)

dedupe_normalized_locations(records) ==
    LET by_key == DedupeLoop(records, <<>>)
    IN  [i \in 1..Len(by_key) |-> by_key[i].rec]

\* --------------------------------------------------------------- normalizer
\* A speed field of a raw location object.
\*   k "missing" key absent, "none" null, "num" number v, "wrap" {value: v},
\*     "huge" an integer literal beyond the range of a float (v unused)
Spd(k, v) == [k |-> k, v |-> v]
SpdMissing == Spd("missing", 0)
SpdNone == Spd("none", 0)
\* dict.get: an absent key reads as None.
GetSpd(x) == IF x.k = "missing" THEN SpdNone ELSE x
TruthySpd(x) == x.k \in {"wrap", "huge"} \/ (x.k = "num" /\ x.v # 0)
OrSpd(a, b) == IF TruthySpd(a) THEN a ELSE b
\* A raw number taken over as it is, in fixed point.
Unconverted(x) ==
    IF x.k = "num" THEN Spd("num", x.v * E5) ELSE IF x.k = "huge" THEN x ELSE SpdNone
MphToKph(x) == Spd("num", x.v * MPH_TO_KPH_E5)

\* A raw location object (a JSON dict). A field that reads None (NoneN,
\* TsNone) or SpdMissing is a key the dict does not hold; SpdNone is a key
\* that holds null.
LocDict(lat, lon, time, timeMs, updatedAt, speedKph, speed, speedMilesPerHour) ==
    [latitude |-> lat, longitude |-> lon, time |-> time, timeMs |-> timeMs,
     updatedAt |-> updatedAt, speedKph |-> speedKph, speed |-> speed,
     speedMilesPerHour |-> speedMilesPerHour]

\* What a raw record holds under "location" / "lastKnownLocation":
\*   shape "none" (absent or null), "dict" (elems = <<d>>), "list" (elems).
LocNone == [shape |-> "none", elems |-> <<>>]
LocOne(d) == [shape |-> "dict", elems |-> <<d>>]
LocList(ds) == [shape |-> "list", elems |-> ds]
\* The dict with no key at all, {}.
EmptyDict(d) ==
    /\ d.latitude = NoneN /\ d.longitude = NoneN
    /\ d.time.kind = "none" /\ d.timeMs.kind = "none" /\ d.updatedAt.kind = "none"
    /\ d.speedKph.k = "missing" /\ d.speed.k = "missing"
    /\ d.speedMilesPerHour.k = "missing"
\* Truthiness of the value in `a or b`: None, {} and [] are falsy.
TruthyLoc(l) ==
    \/ l.shape = "dict" /\ ~EmptyDict(l.elems[1])
    \/ l.shape = "list" /\ l.elems # <<>>

\* What an extractor hands back: a dict (ok), None, or, with `error` set,
\* the exception that left it.
NoLocInfo == [ok |-> FALSE, error |-> "none", latitude |-> NoneN, longitude |-> NoneN,
              timestamp_utc |-> TsNone, speed_kph |-> SpdNone]
\* float(x) of an int too large for a float: OverflowError, which the
\* `except (TypeError, ValueError)` around the call does not catch.
FloatOverflows == [NoLocInfo EXCEPT !.error = "OverflowError"]

_extract_location_common(raw) ==
    LET loc == IF TruthyLoc(raw.location) THEN raw.location ELSE raw.lastKnownLocation
    IN  IF loc.shape # "dict" THEN NoLocInfo
        ELSE
        LET d   == loc.elems[1]
            ts  == OrTs(OrTs(d.time, d.timeMs), d.updatedAt)
            sp0 == OrSpd(OrSpd(GetSpd(d.speedKph), GetSpd(d.speed)),
                         GetSpd(d.speedMilesPerHour))
            sp1 == IF sp0.k = "wrap" THEN Spd("num", sp0.v) ELSE sp0
            \* float(loc["speedMilesPerHour"]) raises on None and on a dict:
            \* the speed found so far is then kept.
            sp2 == IF d.speedMilesPerHour.k = "num"
                   THEN MphToKph(d.speedMilesPerHour)
                   ELSE Unconverted(sp1)
        IN  IF d.latitude = NoneN \/ d.longitude = NoneN \/ ts.kind = "none"
            THEN NoLocInfo
            ELSE IF d.speedMilesPerHour.k = "huge" THEN FloatOverflows
            ELSE [ok |-> TRUE, error |-> "none",
                  latitude |-> d.latitude, longitude |-> d.longitude,
                  timestamp_utc |-> ts, speed_kph |-> sp2]

_extract_location_from_v1_asset(raw) ==
    IF raw.location.shape # "list" \/ raw.location.elems = <<>> THEN NoLocInfo
    ELSE
    LET d  == raw.location.elems[1]
        ts == OrTs(d.time, d.timeMs)
        sp == IF d.speedMilesPerHour.k = "num"
              THEN MphToKph(d.speedMilesPerHour)
              ELSE SpdNone
    IN  IF d.latitude = NoneN \/ d.longitude = NoneN \/ ts.kind = "none"
        THEN NoLocInfo
        ELSE IF d.speedMilesPerHour.k = "huge" THEN FloatOverflows
        ELSE [ok |-> TRUE, error |-> "none",
              latitude |-> d.latitude, longitude |-> d.longitude,
              timestamp_utc |-> ts, speed_kph |-> sp]

\* A canonical location record; `raw` names the payload it was made from.
LocationRecord(external_id, source_system, source_category, name, vehicle_type, lat, lon, speed_kph, ts, raw) ==
    [external_id |-> external_id, source_system |-> source_system,
     source_category |-> source_category, name |-> name,
     vehicle_type |-> vehicle_type, latitude |-> lat, longitude |-> lon,
     speed_kph |-> speed_kph, timestamp_utc |-> ts, raw |-> raw]

Absent == LocationRecord(NoneS, NoneS, NoneS, NoneS, NoneS, NoneN, NoneN,
                         SpdNone, TsNone, "absent")

\* normalize_location_record does not return: OverflowError leaves it.
Raises == [Absent EXCEPT !.raw = "OverflowError"]

\* normalize_location_record(raw, category): a record, or Absent (None), or
\* Raises when an extractor raised.
normalize_location_record(raw, category) ==
    LET external_id == OrS(OrS(raw.id, raw.assetId), raw.assetSerialNumber)
        name        == OrS(raw.name, external_id)
        vtype       == OrS(OrS(raw.vehicleType, raw.assetType), raw.type)
        loc_info    == IF category \in {"vehicles_v2", "equipment_v2"}
                       THEN _extract_location_common(raw)
                       ELSE IF category = "assets_v1"
                       THEN _extract_location_from_v1_asset(raw)
                       ELSE NoLocInfo
    IN  IF external_id = NoneS THEN Absent
        ELSE IF loc_info.error # "none" THEN Raises
        ELSE IF ~loc_info.ok THEN Absent
        ELSE LocationRecord(external_id, "samsara", category, name, vtype,
                            loc_info.latitude, loc_info.longitude,
                            loc_info.speed_kph, loc_info.timestamp_utc, raw.tag)

\* normalize_cat_position(raw): always a record.
normalize_cat_position(raw) ==
    LET external_id == IF TruthyS(raw.EquipmentID) THEN raw.EquipmentID
                       ELSE IF TruthyS(raw.SerialNumber) THEN raw.SerialNumber
                       ELSE "unknown"
        name        == IF TruthyS(raw.EquipmentID) THEN raw.EquipmentID
                       ELSE IF TruthyS(raw.SerialNumber) THEN raw.SerialNumber
                       ELSE IF TruthyS(raw.Model) THEN raw.Model
                       ELSE "CAT asset unknown"
        ts          == OrTs(OrTs(raw.loc_datetime, raw.dist_datetime), raw.SnapshotTime)
    IN  LocationRecord(external_id, "cat", NoneS, name, raw.Model,
                       raw.Latitude, raw.Longitude, SpdNone, ts, raw.tag)

\* -------------------------------------------------------------------- store
\* The vehicles table, keyed by its unique constraint restricted to the one
\* organization the pass writes: (external_id, source_system). The uuid of
\* a row is in one-to-one correspondence with that key and is modelled by
\* it. Columns no modelled operation reads are left out.
ExtIds == {"e1", "e2", "", "unknown"}
Systems == {"samsara", "cat"}
Idents == ExtIds \X Systems

NoVehicle == [present |-> FALSE, is_deleted |-> FALSE, name |-> NoneS,
              type |-> NoneS, last_seen_at |-> 0]
NoPosition == [present |-> FALSE, latitude |-> NoneN, longitude |-> NoneN,
               speed_kph |-> SpdNone, timestamp_utc |-> 0]

\* What _ensure_datetime_utc hands back: the instant dt, or, with `error`
\* set, the exception that left it.
Stamped(err, dt) == [error |-> err, dt |-> dt]

\* The numeric branch, for the number n * (3600000 / TicksPerHour), n being
\* the ticks from the epoch to the reading the number was made from:
\*   value > 1e12  -> milliseconds: value / 1000 seconds after the epoch
\*   else          -> seconds: the instant lies 1000 * n ticks after the epoch
\* datetime.fromtimestamp raises ValueError outside the years 1..9999
\* (seconds -62135596800 .. 253402300799); nothing catches it.
FromNumber(n) ==
    IF n * 9 > 2500000 * TicksPerHour
    THEN IF n >= 70389528 * TicksPerHour
         THEN Stamped("ValueError", 0)
         ELSE Stamped("none", EpochTick + n)
    ELSE IF n * 1000 >= 70389528 * TicksPerHour \/ n * 1000 < 0 - 17259888 * TicksPerHour
         THEN Stamped("ValueError", 0)
         ELSE Stamped("none", EpochTick + n * 1000)

\* The last resort for a string datetime.fromisoformat rejects and float()
\* reads: `value` seconds after the epoch, cut to the tick they fall in.
\* Four digits spell less than 1e12, so the milliseconds branch and the
\* ValueError of datetime.fromtimestamp are out of their reach.
FromSeconds(value) == Stamped("none", EpochTick + (value * TicksPerHour) \div 3600)

\* _ensure_datetime_utc(ts), read at clock `now`.
\*   datetime, str that datetime.fromisoformat reads -> its instant
\*   number                                          -> FromNumber
\*   str of digits (fromisoformat raises, float(s)
\*   reads it)                                       -> FromSeconds
\*   any other str (float(s) raises as well), None   -> now()
_ensure_datetime_utc(ts, now) ==
    IF ts.kind \in {"dt", "dt_naive", "iso", "iso_naive"}
    THEN Stamped("none", Instant(ts))
    ELSE IF ts.kind = "epoch" THEN FromNumber(ts.t - EpochTick)
    ELSE IF ts.kind = "digits" THEN FromSeconds(ts.t)
    ELSE Stamped("none", now)

\* upsert_vehicle without its is_deleted check.
IsBlocklistedNever(tbl, ident) == FALSE

\* The read at the head of upsert_vehicle: is the identity blocklisted?
IsBlocklisted(tbl, ident) == tbl[ident].present /\ tbl[ident].is_deleted

\* upsert_vehicle with `"is_deleted": False` in its payload: the upsert
\* clears the flag of the row it updates.
UpsertVehicleRowUndeletes(tbl, ident, name, vtype, now) ==
    LET old == tbl[ident]
    IN  [tbl EXCEPT ![ident] =
            [present |-> TRUE,
             is_deleted |-> FALSE,
             name |-> IF name = NoneS THEN old.name ELSE name,
             type |-> IF vtype = NoneS THEN old.type ELSE vtype,
             last_seen_at |-> now]]

\* The upsert of upsert_vehicle: None values are dropped from the payload, so
\* a None type leaves the stored type alone; is_deleted is not in the
\* payload (a new row gets the column default, false).
UpsertVehicleRow(tbl, ident, name, vtype, now) ==
    LET old == tbl[ident]
    IN  [tbl EXCEPT ![ident] =
            [present |-> TRUE,
             is_deleted |-> IF old.present THEN old.is_deleted ELSE FALSE,
             name |-> IF name = NoneS THEN old.name ELSE name,
             type |-> IF vtype = NoneS THEN old.type ELSE vtype,
             last_seen_at |-> now]]

\* insert_position as a plain insert that leaves a row already there alone
\* (ignore_duplicates): the first position of a vehicle is kept for good.
UpsertPositionRowKeepFirst(tbl, vehicle_id, rec, now) ==
    IF tbl[vehicle_id].present THEN tbl
    ELSE [tbl EXCEPT ![vehicle_id] =
            [present |-> TRUE, latitude |-> rec.latitude, longitude |-> rec.longitude,
             speed_kph |-> rec.speed_kph,
             timestamp_utc |-> _ensure_datetime_utc(rec.timestamp_utc, now).dt]]

\* The upsert of insert_position, on_conflict = vehicle_id.
UpsertPositionRow(tbl, vehicle_id, rec, now) ==
    [tbl EXCEPT ![vehicle_id] =
        [present |-> TRUE, latitude |-> rec.latitude, longitude |-> rec.longitude,
         speed_kph |-> rec.speed_kph,
         timestamp_utc |-> _ensure_datetime_utc(rec.timestamp_utc, now).dt]]

\* The rows a soft_delete_vehicle / restore_vehicle call addresses.
\*   sel.by "id" or "external_id": the row of sel.ident
\*   sel.by "name": every row of that name (of sel.sys when it is given)
Selected(tbl, sel) ==
    {i \in Idents :
        /\ tbl[i].present
        /\ IF sel.by = "name"
           THEN tbl[i].name = sel.name /\ (sel.sys = NoneS \/ i[2] = sel.sys)
           ELSE i = sel.ident}

SetDeleted(tbl, sel, flag) ==
    [i \in Idents |->
        IF i \in Selected(tbl, sel) /\ tbl[i].is_deleted # flag
        THEN [tbl[i] EXCEPT !.is_deleted = flag]
        ELSE tbl[i]]

\* ------------------------------------------------------------------- inputs
Cutoff0 == Now0 - POSITION_FRESHNESS_HOURS * TicksPerHour
TsNow == TS("iso", Now0, 0)
TsEdge == TS("iso", Cutoff0, 0)
TsOld == TS("iso", Cutoff0 - 1, 0)
TsMsNow == TS("epoch", Now0, 0)
TsBad == TS("garbage", 0, 0)
\* The numbers a timestamp of four digits may spell: this year, last year,
\* and two years without century ("0032", "0099").
DigitYears == {YearOfPass, YearOfPass - 1, 32, 99}

LatA == Some(46200051)
LonA == Some(-119150001)

\* A v2 location object with the given time field and no speed.
LocAt(time, timeMs) ==
    LocDict(LatA, LonA, time, timeMs, TsNone, SpdMissing, SpdMissing, SpdMissing)

\* A raw Samsara record; `tag` names the payload.
RawSamsara(tag, id, assetSerialNumber, name, location, lastKnownLocation) ==
    [tag |-> tag, id |-> id, assetId |-> NoneS,
     assetSerialNumber |-> assetSerialNumber, name |-> name,
     vehicleType |-> NoneS, assetType |-> NoneS, type |-> NoneS,
     location |-> location, lastKnownLocation |-> lastKnownLocation]

\* A raw CAT Equipment record.
RawCat(tag, EquipmentID, SerialNumber, Model, lat, lon, loc_datetime, SnapshotTime) ==
    [tag |-> tag, EquipmentID |-> EquipmentID, SerialNumber |-> SerialNumber,
     Model |-> Model, Latitude |-> lat, Longitude |-> lon,
     loc_datetime |-> loc_datetime, dist_datetime |-> TsNone,
     SnapshotTime |-> SnapshotTime]

\* What /fleet/vehicles/locations may return.
VehiclesPool ==
    { RawSamsara("v_e1_now", "e1", NoneS, "T1", LocOne(LocAt(TsNow, TsNone)), LocNone),
      RawSamsara("v_e1_old", "e1", NoneS, "T1", LocOne(LocAt(TsOld, TsNone)), LocNone),
      RawSamsara("v_e2_noloc", "e2", NoneS, "T2", LocNone, LocNone),
      RawSamsara("v_e1_edge", "e1", NoneS, "T1", LocOne(LocAt(TsEdge, TsNone)), LocNone) }

\* What /fleet/equipment/locations may return.
EquipmentPool ==
    { RawSamsara("q_e1_now", "e1", NoneS, "T1", LocNone, LocOne(LocAt(TsNow, TsNone))),
      RawSamsara("q_e2_edge", "e2", NoneS, NoneS, LocOne(LocAt(TsEdge, TsNone)), LocNone) }

\* What /v1/fleet/assets/locations may return.
AssetsPool ==
    { RawSamsara("a_e1_ms", "e1", NoneS, "T1",
                 LocList(<<LocDict(LatA, LonA, TsNone, TsMsNow, TsNone,
                                   SpdMissing, SpdMissing, Spd("num", 35))>>), LocNone),
      RawSamsara("a_e2_old", "e2", NoneS, "T1",
                 LocList(<<LocAt(TsOld, TsNone)>>), LocNone),
      RawSamsara("a_e1_now", "e1", NoneS, "T1",
                 LocList(<<LocAt(TsNow, TsNone)>>), LocNone),
      RawSamsara("a_blank", NoneS, "", "T3",
                 LocList(<<LocAt(TsNow, TsNone)>>), LocNone) }

\* What the CAT fleet endpoint may return.
CatPool ==
    { RawCat("c_e1_now", "e1", NoneS, "D6", LatA, LonA, TsNow, TsNone),
      RawCat("c_bare", NoneS, NoneS, NoneS, NoneN, NoneN, TsNone, TsNone),
      RawCat("c_e2_bad", "e2", NoneS, "D6", LatA, LonA, TsBad, TsNone) }

\* The lists of at most n elements of S.
ListsOf(S, n) == UNION {[1..k -> S] : k \in 0..n}

\* The states the store may be in when a pass starts: each seeded identity
\* is unknown, active or blocklisted; a known vehicle has a position row
\* from an earlier pass.
SeedIdents == {<<"e1", "samsara">>, <<"e2", "samsara">>}
SeedVehicle(deleted) ==
    [present |-> TRUE, is_deleted |-> deleted, name |-> "T1", type |-> NoneS,
     last_seen_at |-> Now0 - 1]
SeedPosition ==
    [present |-> TRUE, latitude |-> LatA, longitude |-> LonA,
     speed_kph |-> SpdNone, timestamp_utc |-> Now0 - 1]
InitialVehicleTables ==
    {[i \in Idents |-> IF i \in SeedIdents THEN f[i] ELSE NoVehicle] :
        f \in [SeedIdents -> {NoVehicle, SeedVehicle(FALSE), SeedVehicle(TRUE)}]}
PositionsFor(tbl) ==
    [i \in Idents |-> IF tbl[i].present THEN SeedPosition ELSE NoPosition]

\* -------------------------------------------------------------------- state
VARIABLES
    pc,                 \* where run_sync_once stands
    now,                \* the clock
    error,              \* the exception that left run_sync_once, or "none"
    vehicles_raw, equipment_raw, assets_v1_raw,   \* payloads["..."]
    cat_records,        \* fetch_cat_positions()
    normalized, skipped_normalize,
    deduped,
    fresh_records, stale_records,
    idx,                \* position of the persisting loop in fresh_records
    inserted_positions, skipped_deleted,
    vehicles,           \* table vehicles
    vehicle_positions,  \* table vehicle_positions
    probe,              \* a direct call of a pure function: arguments, result
    cleanup             \* where a call of delete_stale_vehicles stands

fetched == <<vehicles_raw, equipment_raw, assets_v1_raw, cat_records>>
staged == <<normalized, skipped_normalize, deduped, fresh_records, stale_records>>
counters == <<inserted_positions, skipped_deleted>>
store == <<vehicles, vehicle_positions>>
vars == <<pc, now, error, fetched, staged, idx, counters, store, probe, cleanup>>

\* No call of delete_stale_vehicles under way.
\*   pc             "idle", "delete" (SELECT answered, DELETE not yet sent)
\*                  or "returned"
\*   cutoff         the cutoff the call computed on entry
\*   stale_vehicles the rows its SELECT returned
\*   delete_count   what the call returns
NoCleanup == [pc |-> "idle", cutoff |-> 0, stale_vehicles |-> {}, delete_count |-> 0]

NoProbe == [fn |-> "none", ts |-> TsNone, max_age_hours |-> NoneN, result |-> "unset"]

FetchPcs == {"fetch_vehicles", "fetch_equipment", "fetch_assets_v1", "fetch_cat"}
PersistPcs == {"persist_select", "persist_upsert", "persist_insert"}
EndPcs == {"done", "aborted"}

\* The state of the pass before its first statement.
PassStart ==
    /\ error = "none"
    /\ vehicles_raw = <<>> /\ equipment_raw = <<>> /\ assets_v1_raw = <<>>
    /\ cat_records = <<>>
    /\ normalized = <<>> /\ skipped_normalize = 0
    /\ deduped = <<>>
    /\ fresh_records = <<>> /\ stale_records = <<>>
    /\ idx = 1
    /\ inserted_positions = 0 /\ skipped_deleted = 0

Init ==
    /\ cleanup = NoCleanup
    /\ pc = "fetch_vehicles"
    /\ now = Now0
    /\ PassStart
    /\ vehicles \in InitialVehicleTables
    /\ vehicle_positions = PositionsFor(vehicles)
    /\ probe = NoProbe

\* Raw records still allowed in this pass.
Budget == MaxBatch - (Len(vehicles_raw) + Len(equipment_raw)
                      + Len(assets_v1_raw) + Len(cat_records))

\* ------------------------------------------------------------------ fetching
\* fetch_all_location_payloads: the three endpoints, one after the other.
FetchVehicles ==
    /\ pc = "fetch_vehicles"
    /\ \E batch \in ListsOf(VehiclesPool, Budget) : vehicles_raw' = batch
    /\ pc' = "fetch_equipment"
    /\ UNCHANGED <<now, error, equipment_raw, assets_v1_raw, cat_records, staged,
                   idx, counters, store, probe, cleanup>>

FetchEquipment ==
    /\ pc = "fetch_equipment"
    /\ \E batch \in ListsOf(EquipmentPool, Budget) : equipment_raw' = batch
    /\ pc' = "fetch_assets_v1"
    /\ UNCHANGED <<now, error, vehicles_raw, assets_v1_raw, cat_records, staged,
                   idx, counters, store, probe, cleanup>>

FetchAssetsV1 ==
    /\ pc = "fetch_assets_v1"
    /\ \E batch \in ListsOf(AssetsPool, Budget) : assets_v1_raw' = batch
    /\ pc' = "normalize"
    /\ UNCHANGED <<now, error, vehicles_raw, equipment_raw, cat_records, staged,
                   idx, counters, store, probe, cleanup>>

\* A Samsara request fails (token unset, transport error, timeout, status
\* other than 200, malformed payload): nothing catches the exception.
SamsaraFetchFails ==
    /\ pc \in {"fetch_vehicles", "fetch_equipment", "fetch_assets_v1"}
    /\ \E e \in {"SamsaraError", "RequestException"} : error' = e
    /\ pc' = "aborted"
    /\ UNCHANGED <<now, fetched, staged, idx, counters, store, probe, cleanup>>

\* ---------------------------------------------------------------- normalizing
RECURSIVE NormalizeEach(_, _)
\* The records one normalizing loop appends, in order.
NormalizeEach(raws, category) ==
    IF raws = <<>> THEN <<>>
    ELSE LET rec == normalize_location_record(Head(raws), category)
         IN  (IF rec # Absent THEN <<rec>> ELSE <<>>)
             \o NormalizeEach(Tail(raws), category)

\* A normalizing loop without its else branch.
SkippedByNothing(raws, category) == 0

\* What one normalizing loop adds to skipped_normalize.
SkippedBy(raws, category) == Len(raws) - Len(NormalizeEach(raws, category))

\* A call of normalize_location_record in one of the loops raises.
RaisesIn(raws, category) ==
    \E i \in 1..Len(raws) : normalize_location_record(raws[i], category) = Raises

\* The three loops of run_sync_once over the Samsara payloads; an exception
\* that leaves normalize_location_record leaves run_sync_once.
Normalize ==
    /\ pc = "normalize"
    /\ IF \/ RaisesIn(vehicles_raw, "vehicles_v2")
          \/ RaisesIn(equipment_raw, "equipment_v2")
          \/ RaisesIn(assets_v1_raw, "assets_v1")
       THEN /\ error' = "OverflowError"
            /\ pc' = "aborted"
            /\ UNCHANGED <<normalized, skipped_normalize>>
       ELSE /\ normalized' = NormalizeEach(vehicles_raw, "vehicles_v2")
                             \o NormalizeEach(equipment_raw, "equipment_v2")
                             \o NormalizeEach(assets_v1_raw, "assets_v1")
            /\ skipped_normalize' = SkippedBy(vehicles_raw, "vehicles_v2")
                                    + SkippedBy(equipment_raw, "equipment_v2")
                                    + SkippedBy(assets_v1_raw, "assets_v1")
            /\ pc' = "fetch_cat"
            /\ UNCHANGED error
    /\ UNCHANGED <<now, fetched, deduped, fresh_records, stale_records,
                   idx, counters, store, probe, cleanup>>

\* fetch_cat_positions(): every item of every page, normalized; then
\* normalized.extend(cat_records).
FetchCat ==
    /\ pc = "fetch_cat"
    /\ \E batch \in ListsOf(CatPool, Budget) :
          /\ cat_records' = [i \in 1..Len(batch) |-> normalize_cat_position(batch[i])]
          /\ normalized' = normalized \o cat_records'
    /\ pc' = "dedupe"
    /\ UNCHANGED <<now, error, vehicles_raw, equipment_raw, assets_v1_raw,
                   skipped_normalize, deduped, fresh_records, stale_records,
                   idx, counters, store, probe, cleanup>>

\* The CAT token or fleet request fails: nothing catches the exception.
CatFetchFails ==
    /\ pc = "fetch_cat"
    /\ \E e \in {"CatAuthError", "CatApiError", "RequestException"} : error' = e
    /\ pc' = "aborted"
    /\ UNCHANGED <<now, fetched, staged, idx, counters, store, probe, cleanup>>

\* ------------------------------------------------------- deduping, filtering
Dedupe ==
    /\ pc = "dedupe"
    /\ deduped' = dedupe_normalized_locations(normalized)
    /\ pc' = "filter"
    /\ UNCHANGED <<now, error, fetched, normalized, skipped_normalize,
                   fresh_records, stale_records, idx, counters, store, probe, cleanup>>

\* The filter loop reads the clock once for each record, inside
\* is_position_fresh: clock[i] is the reading for the i-th record. The
\* readings never go back, and the clock moves by at most MaxTicks in a pass.
ClockReads(n, t) ==
    {clock \in [1..n -> t..(Now0 + MaxTicks)] : \A i \in 1..(n - 1) : clock[i] <= clock[i + 1]}

\* The records of recs at the positions in I, in their order.
RecordsAt(recs, I) ==
    LET Upto[n \in 0..Len(recs)] ==
            IF n = 0 THEN <<>>
            ELSE IF n \in I THEN Append(Upto[n - 1], recs[n]) ELSE Upto[n - 1]
    IN  Upto[Len(recs)]

\* The pass without its freshness filter: every deduplicated record is kept.
FreshOfEverything(recs, clock) == recs

\* The records is_position_fresh accepts, each at its own clock reading
\* (and those it rejects).
FreshOf(recs, clock) ==
    RecordsAt(recs, {i \in 1..Len(recs) :
        is_position_fresh(recs[i].timestamp_utc, POSITION_FRESHNESS_HOURS, clock[i])})
StaleOf(recs, clock) ==
    RecordsAt(recs, {i \in 1..Len(recs) :
        ~is_position_fresh(recs[i].timestamp_utc, POSITION_FRESHNESS_HOURS, clock[i])})

\* The end of a stage that hands `n` fresh records to the persisting loop.
AfterRecord(i, n) == IF i > n THEN "report" ELSE "persist_select"

Filter ==
    /\ pc = "filter"
    /\ \E clock \in ClockReads(Len(deduped), now) :
          /\ fresh_records' = FreshOf(deduped, clock)
          /\ stale_records' = StaleOf(deduped, clock)
          /\ now' = IF deduped = <<>> THEN now ELSE clock[Len(deduped)]
    /\ pc' = AfterRecord(1, Len(fresh_records'))
    /\ UNCHANGED <<error, fetched, normalized, skipped_normalize, deduped,
                   idx, counters, store, probe, cleanup>>

\* ----------------------------------------------------------------- persisting
Rec == fresh_records[idx]
RecIdent == <<Rec.external_id, Rec.source_system>>

\* upsert_vehicle, its first query: a blocklisted identity returns None and
\* the loop counts it and goes on to the next record.
PersistSelect ==
    /\ pc = "persist_select"
    /\ IF IsBlocklisted(vehicles, RecIdent)
       THEN /\ skipped_deleted' = skipped_deleted + 1
            /\ idx' = idx + 1
            /\ pc' = AfterRecord(idx + 1, Len(fresh_records))
       ELSE /\ pc' = "persist_upsert"
            /\ UNCHANGED <<idx, skipped_deleted>>
    /\ UNCHANGED <<now, error, fetched, staged, inserted_positions, store, probe, cleanup>>

\* upsert_vehicle, its write; the id it returns is the row's.
PersistUpsert ==
    /\ pc = "persist_upsert"
    /\ vehicles' = UpsertVehicleRow(vehicles, RecIdent, Rec.name, Rec.vehicle_type, now)
    /\ pc' = "persist_insert"
    /\ UNCHANGED <<now, error, fetched, staged, idx, counters, vehicle_positions, probe, cleanup>>

\* insert_position for the id upsert_vehicle returned, then the count.
\* vehicle_positions.vehicle_id references vehicles (the constraint the
\* deletes cascade along): the store rejects the row of a vehicle deleted
\* since upsert_vehicle returned its id.
PersistInsert ==
    /\ pc = "persist_insert"
    /\ LET ts_dt == _ensure_datetime_utc(Rec.timestamp_utc, now)
       IN  IF ts_dt.error # "none" \/ ~vehicles[RecIdent].present
           THEN /\ error' = IF ts_dt.error # "none" THEN ts_dt.error ELSE "APIError"
                /\ pc' = "aborted"
                /\ UNCHANGED <<idx, inserted_positions, vehicle_positions>>
           ELSE /\ vehicle_positions' = UpsertPositionRow(vehicle_positions, RecIdent, Rec, now)
                /\ inserted_positions' = inserted_positions + 1
                /\ idx' = idx + 1
                /\ pc' = AfterRecord(idx + 1, Len(fresh_records))
                /\ UNCHANGED error
    /\ UNCHANGED <<now, fetched, staged, skipped_deleted, vehicles, probe, cleanup>>

\* A store call of the record at hand raises: the store rejects the
\* statement (APIError) or cannot be reached (ConnectError). Nothing in
\* the loop catches either.
StoreCallFails ==
    /\ pc \in PersistPcs
    /\ \E e \in {"APIError", "ConnectError"} : error' = e
    /\ pc' = "aborted"
    /\ UNCHANGED <<now, fetched, staged, idx, counters, store, probe, cleanup>>

\* The closing prints.
Report ==
    /\ pc = "report"
    /\ pc' = "done"
    /\ UNCHANGED <<now, error, fetched, staged, idx, counters, store, probe, cleanup>>

\* ------------------------------------------------------------------ operator
Selectors ==
    {[by |-> "external_id", ident |-> i, name |-> NoneS, sys |-> NoneS] : i \in SeedIdents}
    \cup {[by |-> "name", ident |-> <<"", "">>, name |-> "T1", sys |-> y] :
            y \in {NoneS, "samsara"}}

\* soft_delete_vehicle: one UPDATE ... SET is_deleted = true.
SoftDelete ==
    /\ \E sel \in Selectors :
          /\ \E i \in Selected(vehicles, sel) : ~vehicles[i].is_deleted
          /\ vehicles' = SetDeleted(vehicles, sel, TRUE)
    /\ UNCHANGED <<pc, now, error, fetched, staged, idx, counters, vehicle_positions, probe, cleanup>>

\* restore_vehicle: one UPDATE ... SET is_deleted = false.
Restore ==
    /\ \E sel \in Selectors :
          /\ \E i \in Selected(vehicles, sel) : vehicles[i].is_deleted
          /\ vehicles' = SetDeleted(vehicles, sel, FALSE)
    /\ UNCHANGED <<pc, now, error, fetched, staged, idx, counters, vehicle_positions, probe, cleanup>>

\* delete_vehicle: one DELETE of the rows the arguments address, stale or
\* not, blocklisted or not; their rows of vehicle_positions go with them
\* (ON DELETE CASCADE). A call that matches no row returns False and
\* leaves the tables as they are.
DeleteRows(tbl, rows, none) ==
    [i \in Idents |-> IF i \in rows THEN none ELSE tbl[i]]

DeleteVehicle ==
    /\ \E sel \in Selectors :
          /\ Selected(vehicles, sel) # {}
          /\ vehicles' = DeleteRows(vehicles, Selected(vehicles, sel), NoVehicle)
          /\ vehicle_positions' =
                DeleteRows(vehicle_positions, Selected(vehicles, sel), NoPosition)
    /\ UNCHANGED <<pc, now, error, fetched, staged, idx, counters, probe, cleanup>>

\* Time passes while the pass runs.
Tick ==
    /\ pc \notin EndPcs
    /\ now < Now0 + MaxTicks
    /\ now' = now + 1
    /\ UNCHANGED <<pc, error, fetched, staged, idx, counters, store, probe, cleanup>>

Next ==
    \/ FetchVehicles \/ FetchEquipment \/ FetchAssetsV1 \/ SamsaraFetchFails
    \/ Normalize \/ FetchCat \/ CatFetchFails
    \/ Dedupe \/ Filter
    \/ PersistSelect \/ PersistUpsert \/ PersistInsert \/ StoreCallFails
    \/ Report
    \/ SoftDelete \/ Restore \/ DeleteVehicle
    \/ Tick

Spec == Init /\ [][Next]_vars

\* ------------------------------------------------- dedupe called on its own
\* A canonical record as any caller may hand it to the deduplicator.
DRec(tag, external_id, source_category, name, lat, lon) ==
    LocationRecord(external_id, "samsara", source_category, name, NoneS,
                   lat, lon, SpdNone, TsNow, tag)

DedupePool ==
    { DRec("d_veh", "e1", "vehicles_v2", "T1", LatA, LonA),
      DRec("d_veh2", "e1", "vehicles_v2", "T1", LatA, LonA),
      DRec("d_eqp", "e1", "equipment_v2", "T1", LatA, LonA),
      DRec("d_ast", "e1", "assets_v1", "T1", LatA, LonA),
      DRec("d_odd", "e1", "trailers_v9", "T1", LatA, LonA),
      DRec("d_nocat", "e1", NoneS, "T1", LatA, LonA),
      DRec("d_e2", "e2", "assets_v1", "T1", LatA, LonA),
      DRec("d_anon1", NoneS, "assets_v1", "N", NoneN, LonA),
      DRec("d_anon2", NoneS, "assets_v1", "N", LatA, NoneN),
      DRec("d_near1", "", "assets_v1", "Truck 7", Some(46200051), Some(-119150001)),
      DRec("d_near2", "", "vehicles_v2", "Truck 7", Some(46200049), Some(-119149999)),
      DRec("d_blank", "", "assets_v1", "T3", LatA, LonA),
      DRec("d_zpos", NoneS, "assets_v1", "Z", Some(1), Some(10000000)),
      DRec("d_zneg", NoneS, "assets_v1", "Z", Some(-1), Some(10000000)) }

InitDedupe ==
    /\ cleanup = NoCleanup
    /\ pc = "dedupe"
    /\ now = Now0
    /\ error = "none"
    /\ vehicles_raw = <<>> /\ equipment_raw = <<>> /\ assets_v1_raw = <<>>
    /\ cat_records = <<>>
    /\ normalized \in ListsOf(DedupePool, MaxLen)
    /\ skipped_normalize = 0
    /\ deduped = <<>>
    /\ fresh_records = <<>> /\ stale_records = <<>>
    /\ idx = 1
    /\ inserted_positions = 0 /\ skipped_deleted = 0
    /\ vehicles = [i \in Idents |-> NoVehicle]
    /\ vehicle_positions = [i \in Idents |-> NoPosition]
    /\ probe = NoProbe

\* The output is handed to the deduplicator again.
DedupeAgain ==
    /\ pc = "filter"
    /\ normalized' = deduped
    /\ pc' = "dedupe"
    /\ UNCHANGED <<now, error, fetched, skipped_normalize, deduped,
                   fresh_records, stale_records, idx, counters, store, probe, cleanup>>

NextDedupe == Dedupe \/ DedupeAgain

SpecDedupe == InitDedupe /\ [][NextDedupe]_vars

\* ------------------------------------- is_position_fresh called on its own
ProbeAges == {1, 2, POSITION_FRESHNESS_HOURS}
ProbeOffsets == {-1, 0, 1}
ProbeTimes ==
    {Now0 - m * TicksPerHour + d + o * TicksPerHour :
        m \in ProbeAges, d \in -1..1, o \in ProbeOffsets}
ProbeTimestamps ==
    {TS(k, t, o) : k \in {"iso", "dt"}, t \in ProbeTimes, o \in ProbeOffsets}
    \cup {TS(k, t, 0) : k \in {"iso_naive", "dt_naive", "epoch"}, t \in ProbeTimes}
    \cup {TS("garbage", 0, 0), TsNone}

\* max_age_hours = NoneN: the argument is not passed.
InitFresh ==
    /\ cleanup = NoCleanup
    /\ pc = "done"
    /\ now = Now0
    /\ PassStart
    /\ vehicles = [i \in Idents |-> NoVehicle]
    /\ vehicle_positions = [i \in Idents |-> NoPosition]
    /\ probe \in [fn : {"is_position_fresh"}, ts : ProbeTimestamps,
                  max_age_hours : {NoneN} \cup {Some(m) : m \in ProbeAges},
                  result : {"unset"}]

CallIsPositionFresh ==
    /\ probe.fn = "is_position_fresh"
    /\ probe.result = "unset"
    /\ LET m == IF probe.max_age_hours = NoneN
                THEN POSITION_FRESHNESS_HOURS
                ELSE probe.max_age_hours[1]
       IN  probe' = [probe EXCEPT !.result =
                        IF is_position_fresh(probe.ts, m, now) THEN "fresh" ELSE "stale"]
    /\ UNCHANGED <<pc, now, error, fetched, staged, idx, counters, store, cleanup>>

NextFresh == CallIsPositionFresh

SpecFresh == InitFresh /\ [][NextFresh]_vars

\* ------------------------------- normalize_location_record called on its own
\* The location objects a provider may send: every combination of present
\* and missing coordinates and time fields, and every combination of the
\* speed fields on a complete position.
NormCoordLocs ==
    {LocDict(lat, lon, time, timeMs, updatedAt, SpdMissing, SpdMissing, SpdMissing) :
        lat \in {NoneN, LatA}, lon \in {NoneN, LonA},
        time \in {TsNone, TsNow}, timeMs \in {TsNone, TsMsNow},
        updatedAt \in {TsNone, TsOld}}
NormSpeedLocs ==
    {LocDict(LatA, LonA, TsNow, TsNone, TsNone, speedKph, speed, mph) :
        speedKph \in {SpdMissing, Spd("num", 50), Spd("wrap", 50)},
        speed \in {SpdMissing, Spd("num", 40)},
        mph \in {SpdMissing, SpdNone, Spd("num", 0), Spd("num", 10), Spd("wrap", 10),
                 Spd("huge", 0)}}
NormLocs == NormCoordLocs \cup NormSpeedLocs
NormLocations ==
    {LocNone, LocList(<<>>)}
    \cup {LocOne(d) : d \in NormLocs} \cup {LocList(<<d>>) : d \in NormLocs}

\* The raw records normalize_location_record is called on.
NormRaws ==
    {[tag |-> "n", id |-> id, assetId |-> NoneS, assetSerialNumber |-> serial,
      name |-> "T1", vehicleType |-> NoneS, assetType |-> NoneS, type |-> NoneS,
      location |-> location, lastKnownLocation |-> last] :
        id \in {NoneS, "e1"}, serial \in {NoneS, "", "e2"},
        location \in NormLocations,
        last \in {LocNone, LocOne(LocAt(TsEdge, TsNone))}}
NormCategories == {"vehicles_v2", "equipment_v2", "assets_v1", "trailers_v9"}

InitNorm ==
    /\ cleanup = NoCleanup
    /\ pc = "done"
    /\ now = Now0
    /\ PassStart
    /\ vehicles = [i \in Idents |-> NoVehicle]
    /\ vehicle_positions = [i \in Idents |-> NoPosition]
    /\ probe \in [fn : {"normalize_location_record"}, raw : NormRaws,
                  category : NormCategories, called : {FALSE}, result : {Absent}]

CallNormalize ==
    /\ probe.fn = "normalize_location_record"
    /\ ~probe.called
    /\ probe' = [probe EXCEPT !.called = TRUE,
                               !.result = normalize_location_record(probe.raw, probe.category)]
    /\ UNCHANGED <<pc, now, error, fetched, staged, idx, counters, store, cleanup>>

NextNorm == CallNormalize

SpecNorm == InitNorm /\ [][NextNorm]_vars

\* ------------------------------------------------------ nearest-site matcher
\* Distances are fixed-point integers, E6 units to 1 km or 1 mile. The two
\* haversine functions are given by their values at the positions the
\* model uses (vehicle position, then site position, in micro-degrees):
\* the value the function returns there, rounded to the sixth decimal.
KmTable ==
    { <<100000, 100000, 0, 0, 15725333>>,
      <<100000, 100000, 1000000, 1000000, 141524048>>,
      <<100000, 100000, 100000, 200000, 11119476>>,
      <<100000, 100000, 100000, 0, 11119476>>,
      <<100000, 100000, 105000, 100000, 555975>>,
      <<100000, 100000, 108994, 100000, 1000087>>,
      <<100000, 100000, 128950, 100000, 3219093>>,
      <<0, 0, 0, 0, 0>>,
      <<0, 0, 1000000, 1000000, 157249381>>,
      <<0, 0, 100000, 200000, 24863931>>,
      <<0, 0, 100000, 0, 11119493>>,
      <<0, 0, 105000, 100000, 16123260>>,
      <<0, 0, 108994, 100000, 16447711>>,
      <<0, 0, 128950, 100000, 18144915>> }
MilesTable ==
    { <<100000, 100000, 0, 0, 9771283>>,
      <<100000, 100000, 1000000, 1000000, 87939087>>,
      <<100000, 100000, 100000, 200000, 6909331>>,
      <<100000, 100000, 100000, 0, 6909331>>,
      <<100000, 100000, 105000, 100000, 345467>>,
      <<100000, 100000, 108994, 100000, 621426>>,
      <<100000, 100000, 128950, 100000, 2000254>>,
      <<0, 0, 0, 0, 0>>,
      <<0, 0, 1000000, 1000000, 97710370>>,
      <<0, 0, 100000, 200000, 15449752>>,
      <<0, 0, 100000, 0, 6909342>>,
      <<0, 0, 105000, 100000, 10018543>>,
      <<0, 0, 108994, 100000, 10220148>>,
      <<0, 0, 128950, 100000, 11274743>> }

haversine_km(lat1, lon1, lat2, lon2) ==
    (CHOOSE r \in KmTable : r[1] = lat1 /\ r[2] = lon1 /\ r[3] = lat2 /\ r[4] = lon2)[5]

haversine_miles(lat1, lon1, lat2, lon2) ==
    (CHOOSE r \in MilesTable : r[1] = lat1 /\ r[2] = lon1 /\ r[3] = lat2 /\ r[4] = lon2)[5]

\* A job site; a site without coordinates has None (NaN in a data frame).
JobSite(id, name, lat, lon) ==
    [id |-> id, name |-> name, latitude |-> lat, longitude |-> lon]
NoJob == JobSite(NoneS, NoneS, NoneN, NoneN)

\* The default of find_nearest_job's max_distance_km, 1.0.
MAX_DISTANCE_KM == 1000000

\* The loop body of find_nearest_job with `<=` for `<`: of the sites at the
\* least distance the last one is kept.
FindNearestVisitLastWins(st, vehicle_lat, vehicle_lon, jobs, i) ==
    IF jobs[i].latitude = NoneN \/ jobs[i].longitude = NoneN THEN st
    ELSE LET d == haversine_km(vehicle_lat, vehicle_lon,
                               jobs[i].latitude[1], jobs[i].longitude[1])
         IN  IF st.best_distance = NoneN \/ d <= st.best_distance[1]
             THEN [best_job |-> i, best_distance |-> Some(d)]
             ELSE st

\* The loop body of find_nearest_job for the job at position i; best_job is
\* kept as a position in jobs, 0 being None.
FindNearestVisit(st, vehicle_lat, vehicle_lon, jobs, i) ==
    IF jobs[i].latitude = NoneN \/ jobs[i].longitude = NoneN THEN st
    ELSE LET d == haversine_km(vehicle_lat, vehicle_lon,
                               jobs[i].latitude[1], jobs[i].longitude[1])
         IN  IF st.best_distance = NoneN \/ d < st.best_distance[1]
             THEN [best_job |-> i, best_distance |-> Some(d)]
             ELSE st

RECURSIVE FindNearestLoop(_, _, _, _, _)
FindNearestLoop(st, vehicle_lat, vehicle_lon, jobs, i) ==
    IF i > Len(jobs) THEN st
    ELSE FindNearestLoop(FindNearestVisit(st, vehicle_lat, vehicle_lon, jobs, i),
                         vehicle_lat, vehicle_lon, jobs, i + 1)

\* best_job and best_distance when the loop has ended.
FindNearestScan(vehicle_lat, vehicle_lon, jobs) ==
    FindNearestLoop([best_job |-> 0, best_distance |-> NoneN],
                    vehicle_lat, vehicle_lon, jobs, 1)

\* find_nearest_job: the job returned, or NoJob (None).
find_nearest_job(vehicle_lat, vehicle_lon, jobs, max_distance_km) ==
    LET st == FindNearestScan(vehicle_lat, vehicle_lon, jobs)
    IN  IF st.best_job # 0 /\ st.best_distance # NoneN
           /\ st.best_distance[1] <= max_distance_km
        THEN jobs[st.best_job]
        ELSE NoJob

\* Lines 132-142 of run_sync_once of samsara_to_supabase_sync: from the job
\* list it fetched to the job_id it would write with the position (NoneS
\* is None).
SyncJobId(vehicle_lat, vehicle_lon, jobs) ==
    LET jobs_with_coords ==
            SelectSeq(jobs, LAMBDA j : j.latitude # NoneN /\ j.longitude # NoneN)
        nearest_job ==
            IF jobs_with_coords # <<>>
            THEN find_nearest_job(vehicle_lat, vehicle_lon, jobs_with_coords, 1000000)
            ELSE NoJob
    IN  IF nearest_job # NoJob THEN nearest_job.id ELSE NoneS

\* haversine_miles over the arrays of job coordinates: a distance per job,
\* None (NaN) for a job without a coordinate.
MilesToJobs(lat, lon, jobs) ==
    [i \in 1..Len(jobs) |->
        IF jobs[i].latitude = NoneN \/ jobs[i].longitude = NoneN THEN NoneN
        ELSE Some(haversine_miles(lat, lon, jobs[i].latitude[1], jobs[i].longitude[1]))]

\* np.argmin of a non-empty array: the first NaN when there is one, else
\* the first position of the least value.
ArgMin(dists) ==
    IF \E i \in 1..Len(dists) : dists[i] = NoneN
    THEN CHOOSE i \in 1..Len(dists) :
            dists[i] = NoneN /\ \A j \in 1..(i - 1) : dists[j] # NoneN
    ELSE CHOOSE i \in 1..Len(dists) :
            /\ \A j \in 1..Len(dists) : dists[i][1] <= dists[j][1]
            /\ \A j \in 1..(i - 1) : dists[j][1] > dists[i][1]

\* np.round(x, 3) of a distance in E6 units: rint(x * 1000) / 1000. A
\* distance is known to its sixth decimal; one that ends in 500 is taken
\* for the exact half, which rint sends to the even thousandth (the float
\* product may fall to either side of it; no value of the tables ends in
\* 500).
Round3(x) ==
    LET q == x \div 1000
        r == x % 1000
    IN  IF r > 500 \/ (r = 500 /\ q % 2 = 1) THEN (q + 1) * 1000 ELSE q * 1000

\* What a call of the matcher yields.
\*   error     "none", or the exception that left the function
\*   idx       the position in jobs the scan picked (0: none)
\*   job       the job returned (find_nearest_job) or picked (assign_to_jobs)
\*   distance  best_distance / nearest_distance_mi
\*   bucket    assigned_bucket
MatchResult(err, i, job, distance, bucket) ==
    [error |-> err, idx |-> i, job |-> job, distance |-> distance, bucket |-> bucket]
NoMatchResult == MatchResult("none", 0, NoJob, NoneN, NoneS)

\* assign_to_jobs for one row of vehicles_latest.
assign_to_jobs(lat, lon, jobs, threshold_miles) ==
    IF jobs = <<>> THEN MatchResult("ValueError", 0, NoJob, NoneN, NoneS)
    ELSE
    LET dists == MilesToJobs(lat, lon, jobs)
        i     == ArgMin(dists)
        nearest_distance_mi == IF dists[i] = NoneN THEN NoneN ELSE Some(Round3(dists[i][1]))
    IN  MatchResult("none", i, jobs[i], nearest_distance_mi,
                    IF nearest_distance_mi # NoneN /\ nearest_distance_mi[1] <= threshold_miles
                    THEN jobs[i].name ELSE "Other")

\* --------------------------------------------- the matcher called on its own
VehiclePoints == {<<100000, 100000>>, <<0, 0>>}
SitePool ==
    { JobSite("A", "Site A", Some(0), Some(0)),
      JobSite("B", "Site B", Some(1000000), Some(1000000)),
      JobSite("E", "Site E", Some(100000), Some(200000)),
      JobSite("W", "Site W", Some(100000), Some(0)),
      JobSite("N", "Site N", Some(105000), Some(100000)),
      JobSite("K", "Site K", Some(108994), Some(100000)),
      JobSite("M", "Site M", Some(128950), Some(100000)),
      JobSite("X", "Site X", NoneN, NoneN) }
\* max_distance_km: not passed (NoneN), 1 km, 12 km.
ProbeMaxKm == {NoneN, Some(1000000), Some(12000000)}
\* threshold_miles of the sidebar: 2.0 (its default), 7.0.
ProbeThresholds == {Some(2000000), Some(7000000)}

InitNearest ==
    /\ cleanup = NoCleanup
    /\ pc = "done"
    /\ now = Now0
    /\ PassStart
    /\ vehicles = [i \in Idents |-> NoVehicle]
    /\ vehicle_positions = [i \in Idents |-> NoPosition]
    /\ \/ probe \in [fn : {"find_nearest_job"}, vehicle : VehiclePoints,
                      jobs : ListsOf(SitePool, MaxSites), max : ProbeMaxKm,
                      called : {FALSE}, result : {NoMatchResult}]
       \/ probe \in [fn : {"assign_to_jobs"}, vehicle : VehiclePoints,
                      jobs : ListsOf(SitePool, MaxSites), max : ProbeThresholds,
                      called : {FALSE}, result : {NoMatchResult}]

CallFindNearestJob ==
    /\ probe.fn = "find_nearest_job"
    /\ ~probe.called
    /\ LET max_distance_km == IF probe.max = NoneN THEN MAX_DISTANCE_KM ELSE probe.max[1]
           st == FindNearestScan(probe.vehicle[1], probe.vehicle[2], probe.jobs)
       IN  probe' = [probe EXCEPT
                !.called = TRUE,
                !.result = MatchResult("none", st.best_job,
                              find_nearest_job(probe.vehicle[1], probe.vehicle[2],
                                               probe.jobs, max_distance_km),
                              st.best_distance, NoneS)]
    /\ UNCHANGED <<pc, now, error, fetched, staged, idx, counters, store, cleanup>>

CallAssignToJobs ==
    /\ probe.fn = "assign_to_jobs"
    /\ ~probe.called
    /\ probe' = [probe EXCEPT
            !.called = TRUE,
            !.result = assign_to_jobs(probe.vehicle[1], probe.vehicle[2],
                                      probe.jobs, probe.max[1])]
    /\ UNCHANGED <<pc, now, error, fetched, staged, idx, counters, store, cleanup>>

NextNearest == CallFindNearestJob \/ CallAssignToJobs

SpecNearest == InitNearest /\ [][NextNearest]_vars

\* ------------------------------------------- the two callers of the matcher
\* What a caller exposes for one vehicle: the job_id run_sync_once of
\* samsara_to_supabase_sync writes with the position, the assigned_bucket
\* assign_to_jobs gives the row; error is the exception that left the
\* caller instead, or "none".
Exposed(err, value) == [error |-> err, value |-> value]
NotExposed == Exposed("none", "<not called>")
\* No job_id is written: the caller was left before it had one.
NotWritten == "<not written>"

\* The parameters of upsert_vehicle that have no default (supabase_db.py
\* lines 83-90), and the keywords the call at lines 125-130 of
\* run_sync_once passes.
UpsertVehicleRequired == {"organization_id", "external_id", "source_system"}
SyncUpsertKeywords == {"external_id", "source_system", "name", "vtype"}

\* run_sync_once of samsara_to_supabase_sync for one vehicle that has
\* coordinates. Its call of upsert_vehicle passes no organization_id:
\* Python raises TypeError before the body of upsert_vehicle runs, nothing
\* catches it, lines 132-142 are not reached and no statement goes to the
\* store. (The module's own import of insert_vehicle_position and
\* fetch_jobs from supabase_db, which defines neither, fails before that.)
ExposedBySync(vehicle, jobs) ==
    IF UpsertVehicleRequired \subseteq SyncUpsertKeywords
    THEN Exposed("none", SyncJobId(vehicle[1], vehicle[2], jobs))
    ELSE Exposed("TypeError", NotWritten)

ExposedByApp(vehicle, jobs, threshold_miles) ==
    LET r == assign_to_jobs(vehicle[1], vehicle[2], jobs, threshold_miles)
    IN  Exposed(r.error, r.bucket)

\* The same vehicle is put to a caller twice: once with no job sites
\* configured (an empty job list) and once with the job list `jobs`.
InitCallers ==
    /\ cleanup = NoCleanup
    /\ pc = "done"
    /\ now = Now0
    /\ PassStart
    /\ vehicles = [i \in Idents |-> NoVehicle]
    /\ vehicle_positions = [i \in Idents |-> NoPosition]
    /\ \/ probe \in [fn : {"run_sync_once"}, vehicle : VehiclePoints,
                      jobs : ListsOf(SitePool, MaxSites), max : {Some(1000000)},
                      no_sites : {NotExposed}, with_sites : {NotExposed}]
       \/ probe \in [fn : {"assign_to_jobs"}, vehicle : VehiclePoints,
                      jobs : ListsOf(SitePool, MaxSites), max : ProbeThresholds,
                      no_sites : {NotExposed}, with_sites : {NotExposed}]

SyncWithNoSites ==
    /\ probe.fn = "run_sync_once"
    /\ probe.no_sites = NotExposed
    /\ probe' = [probe EXCEPT !.no_sites = ExposedBySync(probe.vehicle, <<>>)]
    /\ UNCHANGED <<pc, now, error, fetched, staged, idx, counters, store, cleanup>>

SyncWithSites ==
    /\ probe.fn = "run_sync_once"
    /\ probe.with_sites = NotExposed
    /\ probe' = [probe EXCEPT !.with_sites = ExposedBySync(probe.vehicle, probe.jobs)]
    /\ UNCHANGED <<pc, now, error, fetched, staged, idx, counters, store, cleanup>>

AppWithNoSites ==
    /\ probe.fn = "assign_to_jobs"
    /\ probe.no_sites = NotExposed
    /\ probe' = [probe EXCEPT !.no_sites = ExposedByApp(probe.vehicle, <<>>, probe.max[1])]
    /\ UNCHANGED <<pc, now, error, fetched, staged, idx, counters, store, cleanup>>

AppWithSites ==
    /\ probe.fn = "assign_to_jobs"
    /\ probe.with_sites = NotExposed
    /\ probe' = [probe EXCEPT
            !.with_sites = ExposedByApp(probe.vehicle, probe.jobs, probe.max[1])]
    /\ UNCHANGED <<pc, now, error, fetched, staged, idx, counters, store, cleanup>>

NextCallers == SyncWithNoSites \/ SyncWithSites \/ AppWithNoSites \/ AppWithSites

SpecCallers == InitCallers /\ [][NextCallers]_vars

\* ------------------------------------------ the pass and the clean-up job
STALE_DAYS == 7
\* timedelta(days=stale_days) in clock ticks.
StaleTicks == STALE_DAYS * 24 * TicksPerHour

\* The rows `.lt("last_seen_at", cutoff)` matches; is_deleted is not
\* looked at.
StaleRows(tbl, cutoff) ==
    {i \in Idents : tbl[i].present /\ tbl[i].last_seen_at < cutoff}

\* delete_stale_vehicles up to the answer of its SELECT: the cutoff is
\* computed once, from the clock on entry; the rows the SELECT returned
\* are counted, and with none of them the call returns 0.
DeleteStaleSelect ==
    /\ cleanup.pc \in {"idle", "returned"}
    /\ LET cutoff == now - StaleTicks
           stale_vehicles == StaleRows(vehicles, cutoff)
           delete_count == Cardinality(stale_vehicles)
       IN  cleanup' = [pc |-> IF delete_count > 0 THEN "delete" ELSE "returned",
                       cutoff |-> cutoff,
                       stale_vehicles |-> stale_vehicles,
                       delete_count |-> delete_count]
    /\ UNCHANGED <<pc, now, error, fetched, staged, idx, counters, store, probe>>

\* delete_stale_vehicles, its second request: the DELETE applies the same
\* filter, with the same cutoff, to the table as it is by then; the rows
\* of vehicle_positions go with their vehicles (ON DELETE CASCADE). The
\* call returns the count of the SELECT.
DeleteStaleDelete ==
    /\ cleanup.pc = "delete"
    /\ vehicles' = DeleteRows(vehicles, StaleRows(vehicles, cleanup.cutoff), NoVehicle)
    /\ vehicle_positions' =
          DeleteRows(vehicle_positions, StaleRows(vehicles, cleanup.cutoff), NoPosition)
    /\ cleanup' = [cleanup EXCEPT !.pc = "returned"]
    /\ UNCHANGED <<pc, now, error, fetched, staged, idx, counters, probe>>

\* A vehicle no pass has written for more than stale_days: it stopped
\* reporting, or it was blocklisted that long ago (upsert_vehicle returns
\* before it writes last_seen_at of a blocklisted row).
LongUnseenVehicle(deleted) ==
    [SeedVehicle(deleted) EXCEPT !.last_seen_at = Now0 - StaleTicks - 1]

CleanupVehicleTables ==
    {[i \in Idents |-> IF i \in SeedIdents THEN f[i] ELSE NoVehicle] :
        f \in [SeedIdents -> {NoVehicle, SeedVehicle(FALSE), SeedVehicle(TRUE),
                              LongUnseenVehicle(FALSE), LongUnseenVehicle(TRUE)}]}

\* The position an earlier pass left, of the time the vehicle was last seen.
LastSeenPositions(tbl) ==
    [i \in Idents |->
        IF tbl[i].present
        THEN [SeedPosition EXCEPT !.timestamp_utc = tbl[i].last_seen_at]
        ELSE NoPosition]

InitCleanup ==
    /\ cleanup = NoCleanup
    /\ pc = "fetch_vehicles"
    /\ now = Now0
    /\ PassStart
    /\ vehicles \in CleanupVehicleTables
    /\ vehicle_positions = LastSeenPositions(vehicles)
    /\ probe = NoProbe

NextCleanup == Next \/ DeleteStaleSelect \/ DeleteStaleDelete

SpecCleanup == InitCleanup /\ [][NextCleanup]_vars

\* ---------------------------------- one asset reported by two endpoints
\* The asset as /fleet/vehicles/locations reports it, timestamped now.
PairVehicle ==
    RawSamsara("p_vehicle", "e1", NoneS, "T1", LocOne(LocAt(TsNow, TsNone)), LocNone)

\* The same asset (same name, same coordinates) as /v1/fleet/assets/locations
\* reports it: under the same id or under another, with a time older than
\* the freshness threshold.
PairAsset(id, time) ==
    RawSamsara("p_asset", id, NoneS, "T1", LocList(<<LocAt(time, TsNone)>>), LocNone)

PairAssets ==
    {PairAsset(id, time) :
        id \in {"e1", "e2"},
        time \in {TsOld, TS("iso_naive", Cutoff0 - 1, 0),
                  TS("iso", Cutoff0 - 24 * TicksPerHour, 0)}}

\* The pass after fetch_all_location_payloads returned the two records.
InitPair ==
    /\ cleanup = NoCleanup
    /\ pc = "normalize"
    /\ now = Now0
    /\ error = "none"
    /\ vehicles_raw = <<PairVehicle>>
    /\ equipment_raw = <<>>
    /\ assets_v1_raw \in {<<a>> : a \in PairAssets}
    /\ cat_records = <<>>
    /\ normalized = <<>> /\ skipped_normalize = 0
    /\ deduped = <<>>
    /\ fresh_records = <<>> /\ stale_records = <<>>
    /\ idx = 1
    /\ inserted_positions = 0 /\ skipped_deleted = 0
    /\ vehicles \in InitialVehicleTables
    /\ vehicle_positions = PositionsFor(vehicles)
    /\ probe = NoProbe

NextPair ==
    \/ Normalize \/ FetchCat \/ CatFetchFails
    \/ Dedupe \/ Filter
    \/ PersistSelect \/ PersistUpsert \/ PersistInsert \/ StoreCallFails
    \/ Report
    \/ SoftDelete \/ Restore
    \/ Tick

SpecPair == InitPair /\ [][NextPair]_vars

\* ------------------------------------- one record, whatever its timestamp
\* The timestamps the one record of the pass may carry: ISO-8601 strings
\* of now, of the threshold and of one tick before it, with and without
\* offset, and the strings the two parsers of the pass read differently.
WriteTimestamps ==
    {TsNow, TsEdge, TsOld, TsBad,
     TS("iso_naive", Now0 - 1, 0), TS("iso", Now0 + TicksPerHour, 1),
     TS("text", Now0 - 2, 0), TS("text", Cutoff0 - 1, 0)}
        \cup {TS("digits", y, 0) : y \in DigitYears}

WriteVehicle(id, time) ==
    RawSamsara("w_vehicle", id, NoneS, "T1", LocOne(LocAt(time, TsNone)), LocNone)

\* The pass after fetch_all_location_payloads returned the one record.
InitWrites ==
    /\ cleanup = NoCleanup
    /\ pc = "normalize"
    /\ now = Now0
    /\ error = "none"
    /\ vehicles_raw \in {<<WriteVehicle(id, time)>> :
            id \in {"e1", "e2"}, time \in WriteTimestamps}
    /\ equipment_raw = <<>>
    /\ assets_v1_raw = <<>>
    /\ cat_records = <<>>
    /\ normalized = <<>> /\ skipped_normalize = 0
    /\ deduped = <<>>
    /\ fresh_records = <<>> /\ stale_records = <<>>
    /\ idx = 1
    /\ inserted_positions = 0 /\ skipped_deleted = 0
    /\ vehicles \in InitialVehicleTables
    /\ vehicle_positions = PositionsFor(vehicles)
    /\ probe = NoProbe

NextWrites ==
    \/ Normalize \/ FetchCat \/ CatFetchFails
    \/ Dedupe \/ Filter
    \/ PersistSelect \/ PersistUpsert \/ PersistInsert \/ StoreCallFails
    \/ Report
    \/ SoftDelete \/ Restore \/ DeleteVehicle
    \/ Tick

SpecWrites == InitWrites /\ [][NextWrites]_vars

\* ------------------------------------------------------ the paginated fetches
\* fetch_cat_positions(start_page=1, max_pages=50)
CAT_START_PAGE == 1
CAT_MAX_PAGES == 50

\* The page numbers a CAT link may name; 0 is a number `if not next_page`
\* takes for "no next page".
CatPages == 0..3

\* One element of data["Links"]. Href: k "page" a URL that ends in /fleet/n,
\* "text" a URL whose last segment is no integer, "none" not a string.
Link(rel, k, n) == [Rel |-> rel, Href |-> [k |-> k, n |-> n]]
CatLinks ==
    {Link("Next", "page", n) : n \in CatPages}
    \cup {Link("next", "text", 0), Link("NEXT", "none", 0), Link("Prev", "page", 1)}

\* str(...).lower() of the Rel values above.
LowerRel(rel) == IF rel \in {"Next", "next", "NEXT"} THEN "next" ELSE "prev"

RECURSIVE _get_next_page_number(_)
\* The page number of the first link with rel "next" and a string Href, or
\* None (NoneN): int() of its last path segment, None when that raises.
_get_next_page_number(links) ==
    IF links = <<>> THEN NoneN
    ELSE LET link == Head(links)
         IN  IF LowerRel(link.Rel) = "next" /\ link.Href.k # "none"
             THEN IF link.Href.k = "page" THEN Some(link.Href.n) ELSE NoneN
             ELSE _get_next_page_number(Tail(links))

\* What the server may answer to a CAT page request: a failure status, or a
\* page with up to two links.
CatResponses ==
    [ok : BOOLEAN, Links : ListsOf(CatLinks, 2)]

\* The state of a paginated fetch.
\*   pc           "request": about to issue a request; "returned"; "raised"
\*   current_page the CAT page to ask for
\*   requests     the CAT requests issued so far (the loop variable `_`)
\*   next_cursor  the Samsara cursor to send as `after` (NoneS: none yet)
Fetching(fn, pc_, current_page, requests, next_cursor) ==
    [fn |-> fn, pc |-> pc_, current_page |-> current_page, requests |-> requests,
     next_cursor |-> next_cursor]

\* One turn of `for _ in range(max_pages)`: the request, and where the
\* loop goes from its answer.
CatRequestPage ==
    /\ probe.fn = "fetch_cat_positions"
    /\ probe.pc = "request"
    /\ \E resp \in CatResponses :
          LET next_page == _get_next_page_number(resp.Links)
              issued    == probe.requests + 1
          IN  probe' =
                IF ~resp.ok
                THEN [probe EXCEPT !.pc = "raised", !.requests = issued]
                ELSE IF next_page = NoneN \/ next_page = Some(0)
                THEN [probe EXCEPT !.pc = "returned", !.requests = issued]
                ELSE [probe EXCEPT
                        !.pc = IF issued = CAT_MAX_PAGES THEN "returned" ELSE "request",
                        !.requests = issued,
                        !.current_page = next_page[1]]
    /\ UNCHANGED <<pc, now, error, fetched, staged, idx, counters, store, cleanup>>

\* The cursors a Samsara page may name under "after" and "endCursor".
Cursors == {NoneS, "", "c1", "c2"}

\* What the server may answer to a Samsara request. pagination.k "none":
\* the key is absent or null; hasNextPage "missing": the key is absent.
SamsaraResponses ==
    [status : {200, 500}, items_is_list : BOOLEAN,
     pagination : [k : {"none"}, after : {NoneS}, endCursor : {NoneS},
                   hasNextPage : {"missing"}]
                  \cup [k : {"dict"}, after : Cursors, endCursor : Cursors,
                        hasNextPage : {"missing", "true", "false"}]]

\* One turn of `while True` in _fetch_paginated.
SamsaraRequestPage ==
    /\ probe.fn = "_fetch_paginated"
    /\ probe.pc = "request"
    /\ \E resp \in SamsaraResponses :
          LET next_cursor == OrS(resp.pagination.after, resp.pagination.endCursor)
              has_next    == IF resp.pagination.hasNextPage = "missing"
                             THEN TruthyS(next_cursor)
                             ELSE resp.pagination.hasNextPage = "true"
          IN  probe' =
                IF resp.status # 200 \/ ~resp.items_is_list
                THEN [probe EXCEPT !.pc = "raised"]
                ELSE IF ~TruthyS(next_cursor) \/ ~has_next
                THEN [probe EXCEPT !.pc = "returned", !.next_cursor = next_cursor]
                ELSE [probe EXCEPT !.next_cursor = next_cursor]
    /\ UNCHANGED <<pc, now, error, fetched, staged, idx, counters, store, cleanup>>

InitPages ==
    /\ cleanup = NoCleanup
    /\ pc = "done"
    /\ now = Now0
    /\ PassStart
    /\ vehicles = [i \in Idents |-> NoVehicle]
    /\ vehicle_positions = [i \in Idents |-> NoPosition]
    /\ probe \in {Fetching("fetch_cat_positions", "request", CAT_START_PAGE, 0, NoneS),
                  Fetching("_fetch_paginated", "request", 0, 0, NoneS)}

NextPages == CatRequestPage \/ SamsaraRequestPage

SpecPages == InitPages /\ [][NextPages]_vars

\* A request returns or times out (timeout=30), and the loop that issued
\* it goes on running: a fetch that can take a step takes one.
FairSpecPages == SpecPages /\ WF_vars(NextPages)

\* -------------------------------------- a timestamp, filtered and then stored
\* The timestamps a canonical record may carry.
StampTimestamps ==
    ProbeTimestamps \cup {TS("text", t, 0) : t \in ProbeTimes}
        \cup {TS("digits", y, 0) : y \in DigitYears}

\* One record's timestamp_utc on its way through a pass: is_position_fresh
\* in the filter, then, for a record that is kept, insert_position.
\*   filtered  the filter has seen the record;  fresh  what it answered
\*   stored    the instant in the timestamp_utc column (NoneN: not written)
InitStamp ==
    /\ cleanup = NoCleanup
    /\ pc = "done"
    /\ now = Now0
    /\ PassStart
    /\ vehicles = [i \in Idents |-> NoVehicle]
    /\ vehicle_positions = [i \in Idents |-> NoPosition]
    /\ probe \in [fn : {"insert_position"}, ts : StampTimestamps,
                  filtered : {FALSE}, fresh : {FALSE}, stored : {NoneN}]

FilterStamp ==
    /\ probe.fn = "insert_position"
    /\ ~probe.filtered
    /\ probe' = [probe EXCEPT
            !.filtered = TRUE,
            !.fresh = is_position_fresh(probe.ts, POSITION_FRESHNESS_HOURS, now)]
    /\ UNCHANGED <<pc, now, error, fetched, staged, idx, counters, store, cleanup>>

InsertStamp ==
    /\ probe.fn = "insert_position"
    /\ probe.filtered /\ probe.fresh
    /\ probe.stored = NoneN
    /\ LET ts_dt == _ensure_datetime_utc(probe.ts, now)
       IN  probe' = [probe EXCEPT !.stored = IF ts_dt.error = "none" THEN Some(ts_dt.dt)
                                            ELSE NoneN]
    /\ UNCHANGED <<pc, now, error, fetched, staged, idx, counters, store, cleanup>>

NextStamp == FilterStamp \/ InsertStamp

SpecStamp == InitStamp /\ [][NextStamp]_vars

\* ===================================================================== claims
TotalFetched ==
    Len(vehicles_raw) + Len(equipment_raw) + Len(assets_v1_raw) + Len(cat_records)

\* The pass has dealt with the record at hand: the loop moved on, or
\* upsert_vehicle returned an id.
HandledRecord ==
    /\ pc = "persist_select"
    /\ pc' # "aborted"
    /\ (idx' # idx \/ pc' # pc)

\* C1: when the persisting loop handles a fresh record whose identity is in
\* the store with is_deleted = true, upsert_vehicle returns None: the loop
\* moves on without calling insert_position, both tables are left as they
\* are, skipped_deleted grows by exactly one and inserted_positions by none.
C1_BlocklistedRecordSkipped ==
    [][ (HandledRecord /\ vehicles[RecIdent].present /\ vehicles[RecIdent].is_deleted)
        => /\ idx' = idx + 1
           /\ pc' \notin {"persist_upsert", "persist_insert"}
           /\ skipped_deleted' = skipped_deleted + 1
           /\ inserted_positions' = inserted_positions
           /\ vehicles' = vehicles
           /\ vehicle_positions' = vehicle_positions ]_vars

\* A pass ended in which the one fresh record was of a blocklisted vehicle.
C1_Witness ==
    /\ pc = "done"
    /\ Len(fresh_records) = 1
    /\ skipped_deleted = 1
    /\ inserted_positions = 0
    /\ vehicles[<<fresh_records[1].external_id, "samsara">>] = SeedVehicle(TRUE)
    /\ vehicle_positions[<<fresh_records[1].external_id, "samsara">>] = SeedPosition

FetchErrors == {"SamsaraError", "CatAuthError", "CatApiError", "RequestException"}

\* C2: a failed provider fetch contributes zero records and does not abort
\* the pass: no pass ends with the exception of a provider fetch.
C2_FetchFailureIsolated == ~(pc = "aborted" /\ error \in FetchErrors)

\* C3: a store call that fails for one record is scoped to that record:
\* the pass is not ended by a statement the store rejected.
C3_RecordFailureIsolated == ~(pc = "aborted" /\ error = "APIError")

\* C4: when the pass reports, every record obtained from a provider is in
\* exactly one counter: fetched = skipped by normalization + removed by
\* dedupe + removed as stale + skipped as blocklisted + inserted.
C4_CountersAccount ==
    pc \in {"report", "done"} =>
        TotalFetched = skipped_normalize + (Len(normalized) - Len(deduped))
                       + Len(stale_records) + skipped_deleted + inserted_positions

\* A pass ended that lost one record to normalization and one to staleness,
\* and one that merged two records and inserted the survivor.
C4_Witness ==
    /\ pc = "done"
    /\ TotalFetched = 2
    /\ \/ skipped_normalize = 1 /\ Len(stale_records) = 1
       \/ Len(normalized) - Len(deduped) = 1 /\ inserted_positions = 1

\* C5: the stages run strictly in the order Fetching, Normalizing,
\* Deduping, Filtering, Persisting, Reporting, so no provider fetch (the CAT
\* fetch included) is still to start once a record has been normalized.
C5_NoFetchAfterNormalizing ==
    pc \in FetchPcs => normalized = <<>> /\ skipped_normalize = 0

\* ------------------------------------------------------- claims on dedupe
\* The fixed order of the categories: a smaller number is a higher priority.
Priority(cat) ==
    IF cat = "vehicles_v2" THEN 1
    ELSE IF cat = "equipment_v2" THEN 2
    ELSE IF cat = "assets_v1" THEN 3
    ELSE 4

KeysOf(recs) == {DedupKey(recs[i]) : i \in 1..Len(recs)}
WithKey(recs, k) == {i \in 1..Len(recs) : DedupKey(recs[i]) = k}

\* The first of the records of key k that have the highest priority.
BestIndex(recs, k) ==
    CHOOSE i \in WithKey(recs, k) :
        \A j \in WithKey(recs, k) :
            \/ Priority(recs[i].source_category) < Priority(recs[j].source_category)
            \/ /\ Priority(recs[i].source_category) = Priority(recs[j].source_category)
               /\ i <= j

\* C6: of the records sharing one dedup key the output holds exactly one,
\* the one of highest priority under vehicles_v2 > equipment_v2 > assets_v1 >
\* anything else, and among several of that priority the first of the input.
C6_KeepsHighestPriorityFirstSeen ==
    pc = "filter" =>
        \A k \in KeysOf(normalized) :
            /\ Cardinality(WithKey(deduped, k)) = 1
            /\ \A j \in WithKey(deduped, k) :
                  deduped[j] = normalized[BestIndex(normalized, k)]

\* A legacy record, then two current-vehicle records of the same id: the
\* first of the two is what is left.
C6_Witness ==
    /\ pc = "filter"
    /\ Len(normalized) = 3
    /\ normalized[1].raw = "d_ast"
    /\ normalized[2].raw = "d_veh2"
    /\ normalized[3].raw = "d_veh"
    /\ Len(deduped) = 1
    /\ deduped[1].raw = "d_veh2"

Keyless(rec) ==
    ~TruthyS(rec.external_id) /\ (rec.latitude = NoneN \/ rec.longitude = NoneN)

\* C7: a record without external_id that lacks latitude or longitude is
\* merged with no other record: every such input record is in the output,
\* also when several of them carry the same name.
C7_KeylessNeverMerged ==
    pc = "filter" =>
        \A i \in 1..Len(normalized) :
            Keyless(normalized[i]) => \E j \in 1..Len(deduped) : deduped[j] = normalized[i]

RECURSIVE IsSubsequence(_, _)
IsSubsequence(a, b) ==
    IF a = <<>> THEN TRUE
    ELSE IF b = <<>> THEN FALSE
    ELSE IF Head(a) = Head(b) THEN IsSubsequence(Tail(a), Tail(b))
    ELSE IsSubsequence(a, Tail(b))

\* C8 as stated: the output is a subsequence of the input, for every input.
C8_OutputIsSubsequence ==
    pc = "filter" => IsSubsequence(deduped, normalized)

RECURSIVE FirstSeenKeys(_, _)
\* The keys of recs in the order of their first appearance.
FirstSeenKeys(recs, seen) ==
    IF recs = <<>> THEN <<>>
    ELSE LET k == DedupKey(Head(recs))
         IN  IF k \in seen THEN FirstSeenKeys(Tail(recs), seen)
             ELSE <<k>> \o FirstSeenKeys(Tail(recs), seen \cup {k})

\* No record of the list follows a record of its key that it outranks.
NoLateWinner(recs) ==
    \A k \in KeysOf(recs) : \A j \in WithKey(recs, k) : BestIndex(recs, k) <= j

\* C8 (amended): dedupe is stable in the keys: the output holds one record
\* per dedup key, the keys in the order of their first appearance in the
\* input; the output is a subsequence of the input whenever no record
\* outranks an earlier record of its key.
C8_KeysInFirstSeenOrder ==
    pc = "filter" =>
        /\ [i \in 1..Len(deduped) |-> DedupKey(deduped[i])] = FirstSeenKeys(normalized, {})
        /\ NoLateWinner(normalized) => IsSubsequence(deduped, normalized)

\* A current-vehicle record took the place of a legacy record ahead of a
\* record of another id.
C8_Witness ==
    /\ pc = "filter"
    /\ Len(normalized) = 3
    /\ normalized[1].raw = "d_ast"
    /\ normalized[2].raw = "d_e2"
    /\ normalized[3].raw = "d_veh"
    /\ Len(deduped) = 2
    /\ deduped[1].raw = "d_veh"
    /\ deduped[2].raw = "d_e2"

DistinctKeys(recs) ==
    \A i, j \in 1..Len(recs) : DedupKey(recs[i]) = DedupKey(recs[j]) => i = j

\* C9: dedupe of a list of pairwise distinct keys returns the list as it is,
\* and dedupe of its own output returns that output.
C9_Idempotent ==
    /\ []((pc = "filter" /\ DistinctKeys(normalized)) => deduped = normalized)
    /\ [][ (pc = "dedupe" /\ normalized = deduped /\ pc' = "filter")
            => deduped' = deduped ]_vars

\* The output of a merge was deduplicated again and came back as it was.
C9_Witness ==
    /\ pc = "filter"
    /\ Len(normalized) = 2
    /\ normalized = deduped
    /\ normalized[1].raw = "d_veh"
    /\ normalized[2].raw = "d_near2"

\* ------------------------------------------- claims on is_position_fresh
ProbeMaxAge ==
    IF probe.max_age_hours = NoneN THEN 336 ELSE probe.max_age_hours[1]

\* The UTC instant a timestamp denotes: the reading less its offset; a
\* reading without offset is UTC; a number is the instant itself.
UtcInstant(ts) ==
    IF ts.kind \in {"iso", "dt"} THEN ts.t - ts.off * TicksPerHour ELSE ts.t

\* C10: for an ISO-8601 string with or without offset, a datetime, and the
\* number copied from timeMs, is_position_fresh is true exactly when the
\* instant is at or after now - maxAgeHours, the threshold being 336 hours
\* when none is passed.
C10_FreshIffWithinThreshold ==
    (probe.result # "unset"
        /\ probe.ts.kind \in {"iso", "iso_naive", "dt", "dt_naive", "epoch"})
    => (probe.result = "fresh"
            <=> UtcInstant(probe.ts) >= now - ProbeMaxAge * TicksPerHour)

\* ------------------------------------------------- claims on the filter stage
\* A timestamp is_position_fresh cannot read: None, a string no parser
\* accepts, or a value that is neither a string nor a datetime (of the
\* values the providers send, the number of timeMs).
Unreadable(ts) == ts.kind \in {"none", "garbage", "epoch"}

\* C11: the freshness filter fails closed. The filtering loop never ends the
\* pass with an exception; once it has run, every deduplicated record whose
\* timestamp is None, unparseable or of an unsupported type is in
\* stale_records and not in fresh_records; and no write to either table is
\* made for such a record.
C11_FilterFailsClosed ==
    /\ [][ pc = "filter" => pc' # "aborted" ]_vars
    /\ [](pc \in PersistPcs \cup {"report", "done"} =>
            \A i \in 1..Len(deduped) :
                Unreadable(deduped[i].timestamp_utc) =>
                    /\ \E j \in 1..Len(stale_records) : stale_records[j] = deduped[i]
                    /\ \A j \in 1..Len(fresh_records) : fresh_records[j] # deduped[i])
    /\ [][ (pc \in PersistPcs /\ store' # store /\ pc' # pc)
            => ~Unreadable(fresh_records[idx].timestamp_utc) ]_vars

\* A pass ended whose two records, one without timestamp and one with a
\* timestamp no parser accepts, were both set aside as stale.
C11_Witness ==
    /\ pc = "done"
    /\ Len(stale_records) = 2
    /\ {stale_records[1].timestamp_utc.kind, stale_records[2].timestamp_utc.kind}
          = {"none", "garbage"}
    /\ fresh_records = <<>>
    /\ inserted_positions = 0

\* ------------------------------------------------- claims on the normalizer
\* The identity fields in the order they are tried.
IdentityFields(raw) == <<raw.id, raw.assetId, raw.assetSerialNumber>>
IdentityResolves(raw) == \E i \in 1..3 : TruthyS(IdentityFields(raw)[i])
ResolvedIdentity(raw) ==
    IdentityFields(raw)[CHOOSE i \in 1..3 :
        /\ TruthyS(IdentityFields(raw)[i])
        /\ \A j \in 1..(i - 1) : ~TruthyS(IdentityFields(raw)[j])]

\* The location object the category reads, as a list of none or one: the
\* nested group under location, else (location being absent or a group
\* without any field) under lastKnownLocation, for the two
\* current-generation categories; the first element of the location list
\* for the legacy one.
HoldsNothing(d) ==
    /\ d.latitude = NoneN /\ d.longitude = NoneN
    /\ \A f \in {d.time, d.timeMs, d.updatedAt} : f.kind = "none"
    /\ \A f \in {d.speedKph, d.speed, d.speedMilesPerHour} : f.k = "missing"
GroupRead(raw, category) ==
    IF category \in {"vehicles_v2", "equipment_v2"}
    THEN IF raw.location.shape = "dict" /\ ~HoldsNothing(raw.location.elems[1])
         THEN raw.location.elems
         ELSE IF raw.location.shape = "list" /\ raw.location.elems # <<>> THEN <<>>
         ELSE IF raw.lastKnownLocation.shape = "dict" THEN raw.lastKnownLocation.elems
         ELSE <<>>
    ELSE IF category = "assets_v1" /\ raw.location.shape = "list"
    THEN SubSeq(raw.location.elems, 1, IF raw.location.elems = <<>> THEN 0 ELSE 1)
    ELSE <<>>

\* The time fields of the category in the order they are tried.
TimeFields(d, category) ==
    IF category = "assets_v1" THEN <<d.time, d.timeMs>>
    ELSE <<d.time, d.timeMs, d.updatedAt>>
TimeResolves(d, category) ==
    \E i \in 1..Len(TimeFields(d, category)) : TimeFields(d, category)[i].kind # "none"
ResolvedTime(d, category) ==
    LET f == TimeFields(d, category)
    IN  f[CHOOSE i \in 1..Len(f) :
            f[i].kind # "none" /\ \A j \in 1..(i - 1) : f[j].kind = "none"]

\* Latitude, longitude, timestamp and identity all resolve for the category.
Resolvable(raw, category) ==
    /\ category \in {"vehicles_v2", "equipment_v2", "assets_v1"}
    /\ IdentityResolves(raw)
    /\ GroupRead(raw, category) # <<>>
    /\ LET d == GroupRead(raw, category)[1]
       IN  d.latitude # NoneN /\ d.longitude # NoneN /\ TimeResolves(d, category)

\* C12: normalize_location_record returns absent exactly when latitude,
\* longitude or timestamp cannot be resolved after the fallbacks of the
\* category, or no identity field resolves, or the category is not one of
\* the three; every record it returns carries the resolved latitude,
\* longitude, timestamp and identity.
C12_AbsentIffUnresolvable ==
    probe.called =>
        /\ (probe.result = Absent) <=> ~Resolvable(probe.raw, probe.category)
        /\ probe.result # Absent =>
              LET d == GroupRead(probe.raw, probe.category)[1]
              IN  /\ probe.result.latitude = d.latitude
                  /\ probe.result.longitude = d.longitude
                  /\ probe.result.timestamp_utc = ResolvedTime(d, probe.category)
                  /\ probe.result.external_id = ResolvedIdentity(probe.raw)

\* C13: every canonical record handed to dedupe_normalized_locations by
\* run_sync_once, from normalize_location_record or from
\* normalize_cat_position, has a latitude, a longitude and a timestamp_utc
\* that are not None and an external_id that is not empty.
C13_RecordsComplete ==
    pc = "dedupe" =>
        \A i \in 1..Len(normalized) :
            /\ normalized[i].latitude # NoneN
            /\ normalized[i].longitude # NoneN
            /\ normalized[i].timestamp_utc.kind # "none"
            /\ normalized[i].external_id \notin {NoneS, ""}

\* C14: a speed given under speedMilesPerHour, as a number x or as
\* {value: x}, normalizes to speed_kph = x * 1.60934, in the extraction of
\* vehicles_v2 and equipment_v2 and in that of assets_v1 alike; it is never
\* stored unconverted.
C14_MphConverted ==
    (probe.called /\ probe.result # Absent) =>
        LET mph == GroupRead(probe.raw, probe.category)[1].speedMilesPerHour
        IN  mph.k \in {"num", "wrap"} =>
                probe.result.speed_kph = [k |-> "num", v |-> mph.v * 160934]

\* ------------------------------------------ claims on the nearest-site matcher
\* The positions of the sites that have coordinates.
WithCoords(jobs) ==
    {i \in 1..Len(jobs) : jobs[i].latitude # NoneN /\ jobs[i].longitude # NoneN}

\* The distance from the probe's vehicle to the job at position i, in the
\* unit of the function called.
ProbeDistance(i) ==
    IF probe.fn = "assign_to_jobs"
    THEN haversine_miles(probe.vehicle[1], probe.vehicle[2],
                         probe.jobs[i].latitude[1], probe.jobs[i].longitude[1])
    ELSE haversine_km(probe.vehicle[1], probe.vehicle[2],
                      probe.jobs[i].latitude[1], probe.jobs[i].longitude[1])

\* The list of sites the claim is about: not empty, and its sites have
\* coordinates (find_nearest_job passes over a site that has none).
SitesWithCoordinates ==
    /\ WithCoords(probe.jobs) # {}
    /\ probe.fn = "assign_to_jobs" => WithCoords(probe.jobs) = 1..Len(probe.jobs)

\* C15: for a non-empty list of sites with coordinates the site the scan
\* picks (the running minimum of find_nearest_job, the argmin of
\* assign_to_jobs) is at a distance <= that of every other site, and of the
\* sites at that distance it is the earliest in the list; with sites at
\* (0,0) and (1,1) and the vehicle at (0.1,0.1) the pick is the site at (0,0).
C15_PicksNearestEarliest ==
    (probe.called /\ SitesWithCoordinates) =>
        LET i == probe.result.idx
        IN  /\ i \in WithCoords(probe.jobs)
            /\ \A j \in WithCoords(probe.jobs) :
                  /\ ProbeDistance(i) <= ProbeDistance(j)
                  /\ j < i => ProbeDistance(j) > ProbeDistance(i)
            /\ ( /\ probe.vehicle = <<100000, 100000>>
                 /\ Len(probe.jobs) = 2
                 /\ <<probe.jobs[1].latitude, probe.jobs[1].longitude>> = <<Some(0), Some(0)>>
                 /\ <<probe.jobs[2].latitude, probe.jobs[2].longitude>>
                        = <<Some(1000000), Some(1000000)>> )
                => i = 1

\* The vehicle at (0.1,0.1) between two sites equally far east and west of
\* it, the western one first in the list: the western one was picked.
C15_Witness ==
    /\ probe.called
    /\ probe.fn = "find_nearest_job"
    /\ probe.vehicle = <<100000, 100000>>
    /\ Len(probe.jobs) = 2
    /\ probe.jobs[1].id = "W"
    /\ probe.jobs[2].id = "E"
    /\ ProbeDistance(1) = ProbeDistance(2)
    /\ probe.result.idx = 1

\* The earliest of the sites nearest to the probe's vehicle.
NearestSite ==
    CHOOSE i \in WithCoords(probe.jobs) :
        \A j \in WithCoords(probe.jobs) :
            \/ ProbeDistance(i) < ProbeDistance(j)
            \/ ProbeDistance(i) = ProbeDistance(j) /\ i <= j

\* C16: with a maximum distance, a vehicle whose nearest site is strictly
\* farther than the maximum is not assigned (find_nearest_job returns None,
\* assign_to_jobs gives the bucket 'Other') and one whose nearest site is
\* within the maximum is assigned to that site; with no maximum supplied the
\* nearest site is returned whatever its distance.
C16_MaxDistanceRespected ==
    (probe.called /\ SitesWithCoordinates) =>
        LET n == NearestSite
        IN  IF probe.fn = "assign_to_jobs"
            THEN /\ ProbeDistance(n) > probe.max[1] => probe.result.bucket = "Other"
                 /\ ProbeDistance(n) <= probe.max[1] =>
                        probe.result.bucket = probe.jobs[n].name
            ELSE IF probe.max = NoneN
            THEN probe.result.job = probe.jobs[n]
            ELSE /\ ProbeDistance(n) > probe.max[1] => probe.result.job = NoJob
                 /\ ProbeDistance(n) <= probe.max[1] =>
                        probe.result.job = probe.jobs[n]

\* The nearest site of the probe's job list is beyond the maximum distance.
NearestTooFar ==
    /\ WithCoords(probe.jobs) # {}
    /\ ProbeDistance(NearestSite) > probe.max[1]

\* C17: what a caller exposes for a vehicle whose nearest site is beyond the
\* maximum distance differs from what it exposes for the same vehicle when
\* no job sites are configured, for the job_id of run_sync_once and for
\* the assigned_bucket of assign_to_jobs.
C17_UnassignedDistinctFromNoSites ==
    (probe.no_sites # NotExposed /\ probe.with_sites # NotExposed /\ NearestTooFar)
        => probe.with_sites # probe.no_sites

\* ------------------------------------------------------ claims on the store
\* The position row that holds the data of a canonical record.
RowOf(rec) ==
    [present |-> TRUE, latitude |-> rec.latitude, longitude |-> rec.longitude,
     speed_kph |-> rec.speed_kph, timestamp_utc |-> UtcInstant(rec.timestamp_utc)]

\* C18: vehicle_positions holds at most one row per vehicle_id (the table is
\* keyed by it); when a call of insert_position returns, the row of its
\* vehicle_id holds the data of that call, whatever row was there before,
\* and the rows of all other vehicles are as they were; nothing else in a
\* pass writes to the table, and outside the pass a row only ever goes
\* away, with its vehicle (delete_vehicle).
C18_LatestPositionOnly ==
    /\ [][ (pc = "persist_insert" /\ inserted_positions' = inserted_positions + 1) =>
            /\ vehicle_positions'[RecIdent] = RowOf(Rec)
            /\ \A v \in Idents \ {RecIdent} :
                  vehicle_positions'[v] = vehicle_positions[v] ]_vars
    /\ [][ vehicle_positions' # vehicle_positions =>
            \/ pc = "persist_insert" /\ inserted_positions' = inserted_positions + 1
            \/ /\ pc' = pc
               /\ \A v \in Idents :
                     \/ vehicle_positions'[v] = vehicle_positions[v]
                     \/ vehicle_positions'[v] = NoPosition /\ ~vehicles'[v].present ]_vars

\* A pass ended that wrote the position of a vehicle over the row an
\* earlier pass had left, the row of the other known vehicle untouched.
C18_Witness ==
    /\ pc = "done"
    /\ inserted_positions = 1
    /\ fresh_records[1].external_id = "e1"
    /\ vehicle_positions[<<"e1", "samsara">>] = RowOf(fresh_records[1])
    /\ vehicle_positions[<<"e1", "samsara">>] # SeedPosition
    /\ vehicle_positions[<<"e2", "samsara">>] = SeedPosition

\* A step of the sync pass: a statement of run_sync_once was executed.
PassStep == pc' # pc

\* C19: no step of a sync pass changes is_deleted of an existing vehicle
\* row: upsert_vehicle and insert_position leave the flag of every vehicle
\* as it is (also when the operator blocklists the vehicle between the
\* read and the write of upsert_vehicle), a row the pass creates is not
\* deleted, and the flag of a row that stays changes only in a step of
\* soft_delete_vehicle or restore_vehicle.
C19_PassKeepsIsDeleted ==
    /\ [][ PassStep =>
            \A v \in Idents :
                /\ vehicles[v].present =>
                      /\ vehicles'[v].present
                      /\ vehicles'[v].is_deleted = vehicles[v].is_deleted
                /\ (~vehicles[v].present /\ vehicles'[v].present) =>
                      ~vehicles'[v].is_deleted ]_vars
    /\ [][ (\E v \in Idents : vehicles[v].present /\ vehicles'[v].present
                /\ vehicles'[v].is_deleted # vehicles[v].is_deleted)
            => (pc' = pc /\ now' = now /\ vehicle_positions' = vehicle_positions) ]_vars

\* The operator blocklisted the vehicle after upsert_vehicle had read its
\* row and before it wrote: the pass ended with the position inserted and
\* the vehicle still blocklisted.
C19_Witness ==
    /\ pc = "done"
    /\ inserted_positions = 1
    /\ skipped_deleted = 0
    /\ Len(fresh_records) = 1
    /\ vehicles[<<fresh_records[1].external_id, fresh_records[1].source_system>>].is_deleted
    /\ vehicles[<<fresh_records[1].external_id, fresh_records[1].source_system>>].last_seen_at
          >= Now0

\* C20: when a pass has completed, every identity that appeared in it (the
\* external_id and source_system of a fresh deduplicated record) has a row
\* whose last_seen_at is a time within the pass, blocklisted or not.
C20_LastSeenRefreshed ==
    pc = "done" =>
        \A i \in 1..Len(fresh_records) :
            LET v == <<fresh_records[i].external_id, fresh_records[i].source_system>>
            IN  vehicles[v].present /\ vehicles[v].last_seen_at >= Now0

\* ------------------------------------------------- claims on the blocklist
\* A step of restore_vehicle that clears the flag of identity v.
RestoredIn(v) ==
    /\ vehicles'[v] = [vehicles[v] EXCEPT !.is_deleted = FALSE]
    /\ pc' = pc
    /\ cleanup' = cleanup
    /\ vehicle_positions' = vehicle_positions

\* A step of the operator's delete_vehicle that removes identity v.
HardDeletedIn(v) ==
    /\ vehicles'[v] = NoVehicle
    /\ vehicle_positions'[v] = NoPosition
    /\ pc' = pc
    /\ cleanup' = cleanup

\* C21: once soft_delete_vehicle has blocklisted an identity, the identity
\* stays blocklisted until restore_vehicle is called for it (or the
\* operator deletes it with delete_vehicle): no step of a sync pass or of
\* delete_stale_vehicles removes its row, makes it an active vehicle, or
\* writes a position for it.
C21_BlocklistHolds ==
    [][ \A v \in Idents :
            (vehicles[v].present /\ vehicles[v].is_deleted) =>
                \/ RestoredIn(v)
                \/ HardDeletedIn(v)
                \/ /\ vehicles'[v].present
                   /\ vehicles'[v].is_deleted
                   /\ vehicle_positions'[v] = vehicle_positions[v] ]_vars

\* --------------------------------------------- claims on the pass, end to end
\* The Samsara records that passed the filter.
SamsaraFresh == SelectSeq(fresh_records, LAMBDA r : r.source_system = "samsara")

\* The canonical record of the vehicles_v2 report of the asset.
IsPairVehicle(rec) ==
    /\ rec.external_id = "e1"
    /\ rec.source_category = "vehicles_v2"
    /\ rec.name = "T1"
    /\ rec.latitude = LatA /\ rec.longitude = LonA
    /\ rec.timestamp_utc = TsNow

\* C22: an asset reported by vehicles_v2 with a timestamp of now and by
\* assets_v1 with the same name and coordinates and a timestamp older than
\* the freshness threshold, under the same external id or under another:
\* exactly one of the two records is left after dedupe and filter, the
\* vehicles_v2 one, and a pass that completes has handled exactly that
\* record: its position is the one written (the record is counted as
\* skipped instead when the operator has blocklisted the vehicle), and no
\* position row holds the older time of the assets_v1 report.
C22_NewestHighestPrioritySurvives ==
    /\ pc \in PersistPcs \cup {"report", "done"} =>
          /\ Len(SamsaraFresh) = 1
          /\ IsPairVehicle(SamsaraFresh[1])
    /\ (pc = "done" /\ cat_records = <<>>) =>
          /\ inserted_positions + skipped_deleted = 1
          /\ inserted_positions = 1 =>
                vehicle_positions[<<"e1", "samsara">>] = RowOf(SamsaraFresh[1])
          /\ \A v \in Idents :
                vehicle_positions[v].present =>
                    vehicle_positions[v].timestamp_utc >= Cutoff0

\* The two endpoints reported the asset under different ids: both records
\* came out of dedupe, the filter dropped the older one, and the pass
\* wrote the position of the vehicles_v2 record only.
C22_Witness ==
    /\ pc = "done"
    /\ assets_v1_raw[1].id = "e2"
    /\ Len(deduped) = 2
    /\ Len(stale_records) = 1
    /\ fresh_records = <<deduped[1]>>
    /\ inserted_positions = 1
    /\ vehicle_positions[<<"e1", "samsara">>].timestamp_utc = Now0

\* ------------------------------------------ claims on unusable raw records
\* What normalize_location_record may hand to the loop that called it.
IsCanonical(rec, category) ==
    /\ rec.external_id # NoneS
    /\ rec.source_system = "samsara"
    /\ rec.source_category = category

\* C23: for every raw record that is a dict, whatever its fields are
\* (missing, null, of an unexpected type or value), a call of
\* normalize_location_record returns: its result is a canonical record or
\* absent, never an exception (an absent result is then counted once in
\* skipped_normalize and the loop goes on).
C23_NormalizeNeverRaises ==
    (probe.fn = "normalize_location_record" /\ probe.called) =>
        \/ probe.result = Absent
        \/ IsCanonical(probe.result, probe.category)

\* ------------------------------------------------- claims on the paginated fetches
\* C24: each paginated fetch terminates after a bounded number of page
\* requests, whatever the server answers (a next link on every page, a
\* next link that points back to a page already fetched):
\* fetch_cat_positions issues at most max_pages requests, and
\* fetch_cat_positions and _fetch_paginated both come to an end (they
\* return or raise).
C24_FetchesTerminate ==
    /\ [](probe.fn = "fetch_cat_positions" => probe.requests <= CAT_MAX_PAGES)
    /\ <>(probe.pc \in {"returned", "raised"})

\* ------------------------------------------ claims on what survives a pass
\* A position of the vehicle is in the store that this pass wrote from a
\* record of the vehicle's identity.
WrittenFor(v) ==
    \E j \in 1..Len(normalized) :
        /\ <<normalized[j].external_id, normalized[j].source_system>> = v
        /\ vehicle_positions[v] = RowOf(normalized[j])

\* A record whose time is within the freshness window at every clock
\* reading of the pass.
FreshThroughout(rec) ==
    /\ rec.timestamp_utc.kind \in {"iso", "iso_naive", "dt", "dt_naive"}
    /\ UtcInstant(rec.timestamp_utc)
          >= Now0 + MaxTicks - POSITION_FRESHNESS_HOURS * TicksPerHour

\* C25: when the records of a completed pass include a fresh record of an
\* external_id whose vehicle is not blocklisted (no record of the pass was
\* skipped as blocklisted, and the vehicle is not blocklisted when the pass
\* ends), the pass has written a position for that vehicle, whatever other
\* records of the same external_id it received.
C25_FreshRecordIsWritten ==
    (pc = "done" /\ skipped_deleted = 0) =>
        \A i \in 1..Len(normalized) :
            LET v == <<normalized[i].external_id, normalized[i].source_system>>
            IN  (FreshThroughout(normalized[i]) /\ ~vehicles[v].is_deleted)
                    => WrittenFor(v)

\* The records of a list handed to dedupe that share the external_id of
\* another record of the list which is of a different source_system.
SharedAcrossSystems(recs) ==
    {i \in 1..Len(recs) :
        \E j \in 1..Len(recs) :
            /\ recs[j].external_id = recs[i].external_id
            /\ recs[j].source_system # recs[i].source_system}

\* C26: dedupe never merges records of different source_system: when a
\* CAT and a Samsara record carry the same external_id, both are in the
\* output of dedupe.
C26_SystemsNeverMerged ==
    pc \notin (FetchPcs \cup {"normalize", "dedupe", "aborted"}) =>
        \A i \in SharedAcrossSystems(normalized) :
            \E k \in 1..Len(deduped) : deduped[k] = normalized[i]

\* C27: no two records that survive dedupe resolve to the same vehicle
\* identity (external_id, source_system), so that a pass calls
\* insert_position at most once per vehicle id. The records are those the
\* normalizers can produce: their external_id is a string.
C27_OneRecordPerIdentity ==
    pc = "filter" =>
        \A i, j \in 1..Len(deduped) :
            (/\ i < j
             /\ deduped[i].external_id # NoneS
             /\ deduped[i].external_id = deduped[j].external_id
             /\ deduped[i].source_system = deduped[j].source_system)
            => FALSE

\* ------------------------------------------ claims on the position writes
\* C28: with soft_delete_vehicle running concurrently with a pass, no
\* position is written for a vehicle whose row has is_deleted = true at
\* the moment of the write: every step that writes the position row of a
\* vehicle finds the vehicle not blocklisted.
C28_NoWriteForBlocklisted ==
    [][ \A v \in Idents :
            (vehicle_positions'[v] # vehicle_positions[v] /\ vehicle_positions'[v].present) =>
                ~(vehicles[v].present /\ vehicles[v].is_deleted) ]_vars

\* C29: across passes the stored timestamp_utc of the position row of a
\* vehicle never decreases: a write to a row that exists leaves a
\* timestamp_utc at or after the one it replaces.
C29_TimestampNeverDecreases ==
    [][ \A v \in Idents :
            (vehicle_positions[v].present /\ vehicle_positions'[v].present) =>
                vehicle_positions'[v].timestamp_utc
                    >= vehicle_positions[v].timestamp_utc ]_vars

\* The timestamps both parsers of the pass read alike: datetime objects and
\* ISO-8601 strings.
ReadAlike(ts) == ts.kind \in {"iso", "iso_naive", "dt", "dt_naive"}

\* C29 as the code has it: insert_position overwrites the position row with
\* the record the pass persists, whether that record is newer or older
\* than the row; when the record's timestamp is a datetime or an ISO-8601
\* string, the timestamp_utc written is the record's instant, whatever the
\* row held, and is never older than the freshness threshold counted back
\* from the start of the pass.
C29_WrittenTimestampWithinWindow ==
    [][ (/\ pc = "persist_insert"
         /\ inserted_positions' = inserted_positions + 1
         /\ ReadAlike(Rec.timestamp_utc)) =>
            /\ vehicle_positions'[RecIdent].present
            /\ vehicle_positions'[RecIdent].timestamp_utc = UtcInstant(Rec.timestamp_utc)
            /\ vehicle_positions'[RecIdent].timestamp_utc >= Cutoff0 ]_vars

\* A pass wrote, over the row an earlier pass left (of one tick ago), the
\* position of a record timestamped exactly at the threshold.
C29_Witness ==
    /\ pc = "done"
    /\ inserted_positions = 1
    /\ fresh_records[1].timestamp_utc = TsEdge
    /\ fresh_records[1].external_id = "e2"
    /\ vehicle_positions[<<"e2", "samsara">>].timestamp_utc = Cutoff0
    /\ Cutoff0 < SeedPosition.timestamp_utc

\* The instant a timestamp that passed the filter denotes: four digits are
\* a year, of today's month and day (the filter runs at Now0).
FilteredInstant(ts) ==
    IF ts.kind = "digits" THEN DateutilYear(ts.t, Now0) ELSE UtcInstant(ts)

\* C30: for every record that passes the freshness filter, the
\* timestamp_utc insert_position stores is the UTC instant the record's
\* timestamp denotes, the one is_position_fresh compared with the cutoff;
\* _ensure_datetime_utc puts neither now() nor another instant in its place.
C30_StoredInstantIsFilteredInstant ==
    (probe.fn = "insert_position" /\ probe.stored # NoneN) =>
        probe.stored = Some(FilteredInstant(probe.ts))

====
